---------------------------- MODULE Spec2Model ----------------------------
(***************************************************************************)
(* Model of the auto-sharp feature engine of evolver_remesher              *)
(* (core_auto_sharp.py): the detectors AM2a..AM2d, the candidate           *)
(* aggregation of auto_detect_and_mark_edges, and the priority resolution  *)
(* and final selection of am3_filter_refine_prioritize, and the feature    *)
(* application of am4_apply_sharps_to_bmesh.                               *)
(*                                                                         *)
(* Edges, faces and vertices are small integers.  A detection is the pair  *)
(* <<detection_type, metric_value>>, as in the source.  Angles are counted *)
(* in steps of 360/NDirs degrees: a face normal is one of NDirs directions *)
(* of a circle, so the angle between two normals is computed from the      *)
(* normals and can be equal to, above or below the threshold.  Face        *)
(* normals are taken as valid (AM1 has updated them).                      *)
(***************************************************************************)
EXTENDS Integers, Sequences, FiniteSets, TLC

VARIABLES
    pc,                           \* "start", "done"
    bm,                           \* the BMesh handed to the pass, or None
    settings,                     \* EvolverAutoSharpSettings, or None
    angle_sharps,                 \* result of am2a_dihedral_angle_analysis
    existing_data_map,            \* result of am2b_existing_blender_data_scan
    curvature_sharps,             \* result of am2c_curvature_based_analysis
    uv_boundaries,                \* result of am2d_uv_island_boundary_analysis
    all_detected_candidates_map,  \* {BMEdge: [(detection_type, metric), ...]}
    priority_resolved_edges,      \* {BMEdge: (winning_type, winning_metric)}
    final_edges_to_mark,          \* the set returned
    first_run,                    \* what the previous pass on this mesh returned
    selected_sharp_edges,         \* the set handed to am4_apply_sharps_to_bmesh
    applications,                 \* per call of am4: the count returned and
                                  \* use_edge_sharp as the call left it
    object_mode,                  \* obj.mode of every object
    active_object,                \* context.active_object (a name)
    selected_objects,             \* context.selected_objects (names)
    with_block,                   \* the frame of bmesh_from_obj between its
                                  \* yield and its finally, or None
    obj_data,                     \* the mesh data of the active object
    active_draw_handlers,         \* draw_handlers._active_draw_handlers
    registered_handlers,          \* the handlers SpaceView3D has registered
    transient_preview,            \* _transient_preview_bmesh_edges and
                                  \* _transient_preview_object_name, or
                                  \* None when both are None
    last_operator,                \* what the last operator call did and returned
    data_objects,                 \* bpy.data.objects: name -> name of its mesh
    data_meshes,                  \* bpy.data.meshes: name -> the faces
    remesher_settings,            \* active_obj.evolver_remesher_settings
    calls                         \* the number of calls made so far

vars == <<pc, bm, settings, angle_sharps, existing_data_map, curvature_sharps,
          uv_boundaries, all_detected_candidates_map, priority_resolved_edges,
          final_edges_to_mark, first_run, selected_sharp_edges, applications,
          object_mode, active_object, selected_objects, with_block, obj_data,
          active_draw_handlers, registered_handlers, transient_preview,
          last_operator, data_objects, data_meshes, remesher_settings, calls>>

\* the variables of the operators and of Blender's data
blender == <<object_mode, active_object, selected_objects, with_block, obj_data,
             active_draw_handlers, registered_handlers, transient_preview,
             last_operator, data_objects, data_meshes, remesher_settings,
             calls>>

\* the variables of the detection pass and of am4_apply_sharps_to_bmesh
detection_vars == <<pc, bm, angle_sharps, existing_data_map, curvature_sharps,
               uv_boundaries, all_detected_candidates_map,
               priority_resolved_edges, final_edges_to_mark, first_run,
               selected_sharp_edges, applications>>

\* the variables of the detection pass
results == <<angle_sharps, existing_data_map, curvature_sharps, uv_boundaries,
             all_detected_candidates_map, priority_resolved_edges,
             final_edges_to_mark>>

-----------------------------------------------------------------------------
(* Bounds of the model *)

\* the longest candidate list handed to am3_filter_refine_prioritize directly
MaxDetections == 2
\* metric values are 1..MaxMetric
MaxMetric == 2
\* the number of directions a face normal can take
NDirs == 4
\* auto_sharp_min_feature_length ranges over 1..MaxFeatureLength
MaxFeatureLength == 5
\* crease and bevel weights, and their minimum settings, are 0..MaxWeight
MaxWeight == 2
\* am4_apply_sharps_to_bmesh is called at most MaxApplications times
MaxApplications == 2
\* at most MaxCalls calls of the draw handler functions, or of the operators
MaxCalls == 4
\* input meshes have at most MaxFaces faces
MaxFaces == 7
\* polycount_percentage is a multiple of 1 / PercentDenominator, from one
\* step up to PercentSteps steps
PercentDenominator == 4
PercentSteps == 6

-----------------------------------------------------------------------------
(* Detection types and their priority *)

TYPE_NONE == "NONE"
TYPE_BLENDER_SEAM == "BLENDER_SEAM"
TYPE_UV_SEAM_BOUNDARY == "UV_SEAM_BOUNDARY"
TYPE_BLENDER_SHARP == "BLENDER_SHARP"
TYPE_BLENDER_CREASE == "BLENDER_CREASE"
TYPE_ANGLE_SHARP == "ANGLE_SHARP"
TYPE_CURVATURE_SHARP == "CURVATURE_SHARP"
TYPE_BLENDER_BEVEL == "BLENDER_BEVEL"

PRIORITY_ORDER_Reordered ==
    << TYPE_BLENDER_SEAM, TYPE_UV_SEAM_BOUNDARY, TYPE_BLENDER_SHARP,
       TYPE_BLENDER_CREASE, TYPE_CURVATURE_SHARP, TYPE_ANGLE_SHARP,
       TYPE_BLENDER_BEVEL >>

PRIORITY_ORDER ==
    << TYPE_UV_SEAM_BOUNDARY, TYPE_BLENDER_SEAM, TYPE_BLENDER_SHARP,
       TYPE_BLENDER_CREASE, TYPE_ANGLE_SHARP, TYPE_CURVATURE_SHARP,
       TYPE_BLENDER_BEVEL >>

\* None: no BMesh, no settings
None == [is_none |-> TRUE]

\* None where an object is expected
NoObject == "None"

\* detection_type in PRIORITY_ORDER: PRIORITY_ORDER.index does not raise
InPriorityOrder(detection_type) ==
    \E i \in 1..Len(PRIORITY_ORDER) : PRIORITY_ORDER[i] = detection_type

\* PRIORITY_ORDER.index(detection_type), counted from 0
PriorityIndex(detection_type) ==
    (CHOOSE i \in 1..Len(PRIORITY_ORDER) : PRIORITY_ORDER[i] = detection_type) - 1

\* float('inf'): above every index of PRIORITY_ORDER
FloatInf == Len(PRIORITY_ORDER)

-----------------------------------------------------------------------------
(* AM3, step 1: priority resolution *)

IsBetter_FirstRecognised(priority_index, current_best_priority_index) ==
    current_best_priority_index = FloatInf

\* the test that lets a recognised detection replace the winner
IsBetter(priority_index, current_best_priority_index) ==
    priority_index < current_best_priority_index

NewBest_NotRecorded(priority_index, current_best_priority_index) ==
    current_best_priority_index

\* current_best_priority_index after a recognised detection has won
NewBest(priority_index, current_best_priority_index) ==
    priority_index

\* the loop over the detections of one edge, from position k on
RECURSIVE PriorityLoop(_, _, _, _)
PriorityLoop(detections, k, current_best_priority_index, winning_detection) ==
    IF k > Len(detections) THEN winning_detection
    ELSE
      LET detection == detections[k]
          detection_type == detection[1]
      IN
      IF InPriorityOrder(detection_type)
        THEN
          IF IsBetter(PriorityIndex(detection_type), current_best_priority_index)
            THEN PriorityLoop(detections, k + 1,
                     NewBest(PriorityIndex(detection_type),
                             current_best_priority_index),
                     detection)
            ELSE PriorityLoop(detections, k + 1, current_best_priority_index,
                              winning_detection)
        ELSE
          \* except ValueError: the warning, then a test that never passes
          IF FloatInf < current_best_priority_index
            THEN PriorityLoop(detections, k + 1, current_best_priority_index,
                              detection)
            ELSE PriorityLoop(detections, k + 1, current_best_priority_index,
                              winning_detection)

WinningDetection_MergedMetric(detections) ==
    << PriorityLoop(detections, 1, FloatInf, detections[1])[1],
       detections[Len(detections)][2] >>

\* the winner among the detections of one edge (a non-empty list)
WinningDetection(detections) ==
    PriorityLoop(detections, 1, FloatInf, detections[1])

\* priority_resolved_edges: edges with an empty list are skipped
PriorityResolution(all_candidate_sources) ==
    [edge \in {e \in DOMAIN all_candidate_sources :
                 all_candidate_sources[e] # <<>>}
       |-> WinningDetection(all_candidate_sources[edge])]

-----------------------------------------------------------------------------
(* AM3, step 2: the final selection (the chaining is a stub) *)

IsExplicitType_NoBevel(winning_type) ==
    winning_type \in {TYPE_BLENDER_SEAM, TYPE_UV_SEAM_BOUNDARY,
                      TYPE_BLENDER_SHARP, TYPE_BLENDER_CREASE}

\* the types that are always included if they won the priority
IsExplicitType(winning_type) ==
    winning_type \in {TYPE_BLENDER_SEAM, TYPE_UV_SEAM_BOUNDARY,
                      TYPE_BLENDER_SHARP, TYPE_BLENDER_CREASE,
                      TYPE_BLENDER_BEVEL}

\* the types meant for chaining
IsGeometricType(winning_type) ==
    winning_type \in {TYPE_ANGLE_SHARP, TYPE_CURVATURE_SHARP}

\* Chains, as the comments of the chaining stub plan them: two edges are
\* connected when they share a vertex and resolved to the same geometric type.
\* The code forms no chain; these definitions state the claims about chains.
GeometricEdges(resolved) ==
    {e \in DOMAIN resolved : IsGeometricType(resolved[e][1])}

Connected(mesh, resolved, e1, e2) ==
    /\ e1 # e2
    /\ mesh.verts[e1] \cap mesh.verts[e2] # {}
    /\ resolved[e1][1] = resolved[e2][1]

RECURSIVE GrowChain(_, _, _)
GrowChain(mesh, resolved, chain) ==
    LET grown == chain \cup
                 {e \in GeometricEdges(resolved) :
                    \E c \in chain : Connected(mesh, resolved, c, e)}
    IN  IF grown = chain THEN chain ELSE GrowChain(mesh, resolved, grown)

\* the maximal connected set of same-type geometric edges that holds edge
ChainOf(mesh, resolved, edge) == GrowChain(mesh, resolved, {edge})

\* the resolved edges that count as sharp
SharpEdges(resolved) ==
    {e \in DOMAIN resolved :
        IsExplicitType(resolved[e][1]) \/ IsGeometricType(resolved[e][1])}

\* a vertex incident to 3 or more resolved sharp edges
IsJunction(mesh, resolved, v) ==
    Cardinality({e \in SharpEdges(resolved) : v \in mesh.verts[e]}) >= 3

GeometricEdgeAdded_LongerChainsOnly(mesh, edge, resolved, min_feature_length) ==
    \/ Cardinality(ChainOf(mesh, resolved, edge)) > min_feature_length
    \/ \E v \in mesh.verts[edge] : IsJunction(mesh, resolved, v)

GeometricEdgeAdded_NoJunctionRule(mesh, edge, resolved, min_feature_length) ==
    Cardinality(ChainOf(mesh, resolved, edge)) >= min_feature_length

\* a geometric edge is added directly, whatever its chain and min_feature_length
GeometricEdgeAdded(mesh, edge, resolved, min_feature_length) ==
    TRUE

\* final_selected_edges after the loop over priority_resolved_edges
FinalSelection(mesh, resolved, min_feature_length) ==
    {edge \in DOMAIN resolved :
        \/ IsExplicitType(resolved[edge][1])
        \/ /\ IsGeometricType(resolved[edge][1])
           /\ GeometricEdgeAdded(mesh, edge, resolved, min_feature_length)}

\* priority_resolved_edges as am3_filter_refine_prioritize leaves it
am3_resolved(mesh, all_candidate_sources) ==
    IF mesh = None \/ DOMAIN all_candidate_sources = {}
      THEN <<>>
      ELSE PriorityResolution(all_candidate_sources)

\* the set am3_filter_refine_prioritize returns
am3_filter_refine_prioritize(mesh, all_candidate_sources, min_feature_length) ==
    IF mesh = None \/ DOMAIN all_candidate_sources = {}
      THEN {}
      ELSE FinalSelection(mesh, PriorityResolution(all_candidate_sources),
                          min_feature_length)

-----------------------------------------------------------------------------
(* The mesh: bm.edges with, per edge, its two vertices, its link_faces and  *)
(* its authored attributes; per face its normal; the active UV layer.       *)

Dirs == 0..(NDirs - 1)

\* the two normals perpendicular to the plane of Dirs
Up == NDirs

Down == NDirs + 1

\* face1.normal.angle(face2.normal), in steps of 360/NDirs degrees; a normal
\* of Dirs and Up or Down are a quarter turn apart, Up and Down half a turn
NormalAngle(n1, n2) ==
    IF n1 \in Dirs /\ n2 \in Dirs
      THEN LET d == IF n1 >= n2 THEN n1 - n2 ELSE n2 - n1
           IN  IF d <= NDirs - d THEN d ELSE NDirs - d
    ELSE IF n1 \in Dirs \/ n2 \in Dirs THEN NDirs \div 4
    ELSE IF n1 = n2 THEN 0
    ELSE NDirs \div 2

\* the largest angle between two normals (pi, rounded down to a step)
MaxAngle == NDirs \div 2

-----------------------------------------------------------------------------
(* AM1 *)

am1_AcceptsAnyMesh(mesh) ==
    mesh # None

\* am1_prepare_bmesh_data: False without a BMesh or when a lookup raises
am1_prepare_bmesh_data(mesh) ==
    IF mesh = None THEN FALSE
    ELSE IF ~mesh.is_valid THEN FALSE
    ELSE TRUE

am1_prepared_mesh_MarksSharp(mesh) ==
    [mesh EXCEPT !.use_edge_sharp = [e \in DOMAIN @ |-> TRUE]]

am1_prepared_mesh_ClearsSeams(mesh) ==
    [mesh EXCEPT !.seam = [e \in DOMAIN @ |-> FALSE]]

\* the mesh as am1_prepare_bmesh_data leaves it: lookup tables ensured and
\* normals updated (they are accurate already); no edge attribute is written
am1_prepared_mesh(mesh) ==
    mesh

-----------------------------------------------------------------------------
(* AM2a: dihedral angle *)

\* len(edge.link_faces) == 2
HasTwoFaces(mesh, edge) ==
    Len(mesh.link_faces[edge]) = 2

\* face1.normal.angle(face2.normal) of link_faces[0] and link_faces[1]
DihedralAngle(mesh, edge) ==
    LET face1 == mesh.link_faces[edge][1]
        face2 == mesh.link_faces[edge][2]
    IN  NormalAngle(mesh.normal[face1], mesh.normal[face2])

ExceedsAngle_OrEqual(angle, primary_detection_angle_rad) ==
    angle >= primary_detection_angle_rad

\* angle > primary_detection_angle_rad
ExceedsAngle(angle, primary_detection_angle_rad) ==
    angle > primary_detection_angle_rad

am2a_dihedral_angle_analysis(mesh, primary_detection_angle_rad) ==
    IF mesh = None \/ mesh.edges = {} THEN {}
    ELSE {edge \in mesh.edges :
            /\ HasTwoFaces(mesh, edge)
            /\ ExceedsAngle(DihedralAngle(mesh, edge),
                            primary_detection_angle_rad)}

-----------------------------------------------------------------------------
(* AM2b: existing Blender data *)

\* the keys of candidates_by_type, in insertion order
ExistingDataTypes ==
    << TYPE_BLENDER_SHARP, TYPE_BLENDER_CREASE, TYPE_BLENDER_SEAM,
       TYPE_BLENDER_BEVEL >>

am2b_CreaseAtLeast(mesh, use_sharps, use_creases, min_crease_val, use_seams, use_bevels, min_bevel_val) ==
    LET edges == IF mesh = None THEN {} ELSE mesh.edges
    IN  (TYPE_BLENDER_SHARP :>
            {edge \in edges :
                use_sharps /\ (~mesh.smooth[edge] \/ mesh.use_edge_sharp[edge])})
     @@ (TYPE_BLENDER_CREASE :>
            {edge \in edges : use_creases /\ mesh.crease[edge] >= min_crease_val})
     @@ (TYPE_BLENDER_SEAM :>
            {edge \in edges : use_seams /\ mesh.seam[edge]})
     @@ (TYPE_BLENDER_BEVEL :>
            {edge \in edges :
                use_bevels /\ mesh.bevel_weight[edge] > min_bevel_val})

am2b_existing_blender_data_scan(mesh, use_sharps, use_creases, min_crease_val, use_seams, use_bevels, min_bevel_val) ==
    LET edges == IF mesh = None THEN {} ELSE mesh.edges
    IN  (TYPE_BLENDER_SHARP :>
            {edge \in edges :
                use_sharps /\ (~mesh.smooth[edge] \/ mesh.use_edge_sharp[edge])})
     @@ (TYPE_BLENDER_CREASE :>
            {edge \in edges : use_creases /\ mesh.crease[edge] > min_crease_val})
     @@ (TYPE_BLENDER_SEAM :>
            {edge \in edges : use_seams /\ mesh.seam[edge]})
     @@ (TYPE_BLENDER_BEVEL :>
            {edge \in edges :
                use_bevels /\ mesh.bevel_weight[edge] > min_bevel_val})

-----------------------------------------------------------------------------
(* AM2c: curvature (a stub), AM2d: UV island boundaries (a stub) *)

am2c_curvature_NaiveProxy(mesh, curvature_sensitivity) ==
    IF mesh = None \/ mesh.edges = {} THEN {}
    ELSE {edge \in mesh.edges : Cardinality(mesh.verts[edge]) = 2}

\* returns the empty set: no edge is marked by this method
am2c_curvature_based_analysis(mesh, curvature_sensitivity) ==
    {}

am2d_uv_NoLayerCheck(mesh) ==
    IF mesh = None \/ mesh.edges = {} THEN {}
    ELSE {edge \in mesh.edges : mesh.seam[edge]}

\* returns the empty set, with or without an active UV layer
am2d_uv_island_boundary_analysis(mesh) ==
    IF mesh = None \/ mesh.edges = {} THEN {}
    ELSE IF ~mesh.uv_active THEN {}
    ELSE {}

-----------------------------------------------------------------------------
(* The aggregation of auto_detect_and_mark_edges *)

add_candidates_KeepFirst(candidates_map, edge_set, det_type, metric) ==
    [edge \in (DOMAIN candidates_map) \cup edge_set |->
        IF edge \in DOMAIN candidates_map
          THEN candidates_map[edge]
          ELSE << <<det_type, metric>> >>]

\* add_candidates: append (det_type, metric) to the list of every edge of the set
add_candidates(candidates_map, edge_set, det_type, metric) ==
    [edge \in (DOMAIN candidates_map) \cup edge_set |->
        LET old == IF edge \in DOMAIN candidates_map
                     THEN candidates_map[edge] ELSE <<>>
        IN  IF edge \in edge_set
              THEN Append(old, <<det_type, metric>>)
              ELSE old]

\* the loop over existing_data_map.items(), from key k on; metric 1.0
RECURSIVE AddExisting(_, _, _)
AddExisting(candidates_map, data_map, k) ==
    IF k > Len(ExistingDataTypes) THEN candidates_map
    ELSE AddExisting(add_candidates(candidates_map,
                                    data_map[ExistingDataTypes[k]],
                                    ExistingDataTypes[k], 1),
                     data_map, k + 1)

\* all_detected_candidates_map after 2a..2d
Aggregate(cfg, angles, existing, curvatures, uvs) ==
    LET m1 == add_candidates(<<>>, angles, TYPE_ANGLE_SHARP,
                             cfg.auto_sharp_primary_angle)
        m2 == AddExisting(m1, existing, 1)
        m3 == IF cfg.auto_sharp_use_curvature
                THEN add_candidates(m2, curvatures, TYPE_CURVATURE_SHARP,
                                    cfg.auto_sharp_curvature_sensitivity)
                ELSE m2
    IN  IF cfg.auto_sharp_preserve_uv_boundaries
          THEN add_candidates(m3, uvs, TYPE_UV_SEAM_BOUNDARY, 1)
          ELSE m3

-----------------------------------------------------------------------------
(* auto_detect_and_mark_edges, as one step *)

NoCandidates == [e \in {} |-> <<>>]

NoExistingData ==
    (TYPE_BLENDER_SHARP :> {}) @@ (TYPE_BLENDER_CREASE :> {})
    @@ (TYPE_BLENDER_SEAM :> {}) @@ (TYPE_BLENDER_BEVEL :> {})

\* the pass ran its detectors: bm and settings given, AM1 succeeded
PassRuns(mesh, cfg) ==
    mesh # None /\ cfg # None /\ am1_prepare_bmesh_data(mesh)

\* one call of auto_detect_and_mark_edges(bm, settings)
DetectionPass ==
    /\ UNCHANGED settings
    /\ bm' = IF PassRuns(bm, settings) THEN am1_prepared_mesh(bm) ELSE bm
    /\ IF ~PassRuns(bm, settings)
         THEN /\ angle_sharps' = {}
              /\ existing_data_map' = NoExistingData
              /\ curvature_sharps' = {}
              /\ uv_boundaries' = {}
              /\ all_detected_candidates_map' = NoCandidates
              /\ priority_resolved_edges' = NoCandidates
              /\ final_edges_to_mark' = {}
         ELSE
           LET angles == am2a_dihedral_angle_analysis(
                             bm, settings.auto_sharp_primary_angle)
               existing == am2b_existing_blender_data_scan(
                             bm,
                             settings.auto_sharp_use_existing_sharps,
                             settings.auto_sharp_use_existing_creases,
                             settings.auto_sharp_min_crease_value,
                             settings.auto_sharp_use_existing_seams,
                             settings.auto_sharp_use_bevel_weights,
                             settings.auto_sharp_min_bevel_weight)
               curvatures == IF settings.auto_sharp_use_curvature
                               THEN am2c_curvature_based_analysis(
                                        bm,
                                        settings.auto_sharp_curvature_sensitivity)
                               ELSE {}
               uvs == IF settings.auto_sharp_preserve_uv_boundaries
                        THEN am2d_uv_island_boundary_analysis(bm)
                        ELSE {}
               candidates == Aggregate(settings, angles, existing, curvatures, uvs)
           IN
           /\ angle_sharps' = angles
           /\ existing_data_map' = existing
           /\ curvature_sharps' = curvatures
           /\ uv_boundaries' = uvs
           /\ all_detected_candidates_map' = candidates
           /\ IF DOMAIN candidates = {}
                THEN /\ priority_resolved_edges' = NoCandidates
                     /\ final_edges_to_mark' = {}
                ELSE /\ priority_resolved_edges' = am3_resolved(bm, candidates)
                     /\ final_edges_to_mark' =
                            am3_filter_refine_prioritize(
                                bm, candidates,
                                settings.auto_sharp_min_feature_length)

AutoDetect ==
    /\ pc = "start"
    /\ pc' = "done"
    /\ DetectionPass
    /\ UNCHANGED <<first_run, selected_sharp_edges, applications, blender>>

\* a second call of auto_detect_and_mark_edges on the same bm and settings;
\* first_run keeps what the first call returned
Rerun ==
    /\ pc = "done"
    /\ pc' = "rerun"
    /\ first_run' = [ priority_resolved_edges |-> priority_resolved_edges,
                      final_edges_to_mark |-> final_edges_to_mark ]
    /\ DetectionPass
    /\ UNCHANGED <<selected_sharp_edges, applications, blender>>

\* am3_filter_refine_prioritize called on a candidate map of its own
AM3Call ==
    /\ pc = "start"
    /\ pc' = "done"
    /\ priority_resolved_edges' = am3_resolved(bm, all_detected_candidates_map)
    /\ final_edges_to_mark' =
           am3_filter_refine_prioritize(bm, all_detected_candidates_map,
                                        settings.auto_sharp_min_feature_length)
    /\ UNCHANGED <<bm, settings, angle_sharps, existing_data_map,
                   curvature_sharps, uv_boundaries, all_detected_candidates_map,
                   first_run, selected_sharp_edges, applications, blender>>

-----------------------------------------------------------------------------
(* AM4: am4_apply_sharps_to_bmesh *)

IsMarkable_AnyEdge(mesh, edge) ==
    TRUE

\* isinstance(edge, bmesh.types.BMEdge) and edge.is_valid: the edge is still
\* an edge of the mesh
IsMarkable(mesh, edge) ==
    edge \in mesh.edges

MarkedValue_Toggled(old) ==
    ~old

\* edge.use_edge_sharp = True
MarkedValue(old) ==
    TRUE

\* if not bm or not selected_sharp_edges: return 0
am4_returns_early(mesh, selected) ==
    mesh = None \/ selected = {}

\* the edges the loop marks
am4_marked_edges(mesh, selected) ==
    IF am4_returns_early(mesh, selected) THEN {}
    ELSE {edge \in selected : IsMarkable(mesh, edge)}

\* the edges the loop prints a warning about
am4_warned_edges(mesh, selected) ==
    IF am4_returns_early(mesh, selected) THEN {}
    ELSE {edge \in selected : ~IsMarkable(mesh, edge)}

\* the mesh as the call leaves it
am4_applied_mesh(mesh, selected) ==
    IF mesh = None THEN mesh
    ELSE [mesh EXCEPT !.use_edge_sharp =
             [edge \in DOMAIN @ |->
                 IF edge \in am4_marked_edges(mesh, selected)
                   THEN MarkedValue(@[edge])
                   ELSE @[edge]]]

am4_CountsEveryEdge(mesh, selected, auto_sharp_settings) ==
    IF am4_returns_early(mesh, selected) THEN 0 ELSE Cardinality(selected)

\* the value returned: marked_count
am4_apply_sharps_to_bmesh(mesh, selected, auto_sharp_settings) ==
    Cardinality(am4_marked_edges(mesh, selected))

\* use_edge_sharp of every edge, None without a mesh
SharpOf(mesh) ==
    IF mesh = None THEN None ELSE mesh.use_edge_sharp

\* one call of am4_apply_sharps_to_bmesh(bm, selected_sharp_edges, settings)
AM4Call ==
    /\ pc \in {"start", "done", "applied"}
    /\ Len(applications) < MaxApplications
    /\ pc' = "applied"
    /\ bm' = am4_applied_mesh(bm, selected_sharp_edges)
    /\ applications' =
          Append(applications,
                 [ marked_count |-> am4_apply_sharps_to_bmesh(
                                        bm, selected_sharp_edges, settings),
                   warned |-> am4_warned_edges(bm, selected_sharp_edges),
                   before |-> SharpOf(bm),
                   after |-> SharpOf(bm') ])
    /\ UNCHANGED <<settings, results, first_run, selected_sharp_edges, blender>>

-----------------------------------------------------------------------------
(* Initial states *)

\* a mesh of six edges around vertex 2: a boundary edge, three interior
\* edges, a non-manifold edge and a wire edge, over three faces
MeshEdges == {"e1", "e2", "e3", "e4", "e5", "e6"}

MeshVerts ==
    ("e1" :> {1, 2}) @@ ("e2" :> {2, 3}) @@ ("e3" :> {3, 4})
    @@ ("e4" :> {2, 5}) @@ ("e5" :> {2, 6}) @@ ("e6" :> {6, 7})

MeshLinkFaces ==
    ("e1" :> <<"f1">>) @@ ("e2" :> <<"f1", "f2">>) @@ ("e3" :> <<"f2", "f3">>)
    @@ ("e4" :> <<"f1", "f3">>) @@ ("e5" :> <<"f1", "f2", "f3">>)
    @@ ("e6" :> <<>>)

MeshFaces == {"f1", "f2", "f3"}

\* the mesh with the given normals and UV layer; e1 is a seam, e2 is marked
\* sharp, e3 carries a crease, e4 a bevel weight
Mesh(normal, uv_active, is_valid) ==
    [ edges |-> MeshEdges,
      verts |-> MeshVerts,
      link_faces |-> MeshLinkFaces,
      normal |-> normal,
      smooth |-> [e \in MeshEdges |-> e # "e2"],
      use_edge_sharp |-> [e \in MeshEdges |-> e = "e2"],
      crease |-> [e \in MeshEdges |-> IF e = "e3" THEN 1 ELSE 0],
      seam |-> [e \in MeshEdges |-> e = "e1"],
      bevel_weight |-> [e \in MeshEdges |-> IF e = "e4" THEN 1 ELSE 0],
      uv_active |-> uv_active,
      is_valid |-> is_valid ]

\* the normal of f1 is direction 0: angles depend on differences only
MeshNormals == {n \in [MeshFaces -> Dirs] : n["f1"] = 0}

DefaultNormals == [f \in MeshFaces |-> 0]

Settings(angle, sharps, creases, seams, bevels, curvature, uv, length) ==
    [ auto_sharp_primary_angle |-> angle,
      auto_sharp_use_existing_sharps |-> sharps,
      auto_sharp_use_existing_creases |-> creases,
      auto_sharp_min_crease_value |-> 0,
      auto_sharp_use_existing_seams |-> seams,
      auto_sharp_use_bevel_weights |-> bevels,
      auto_sharp_min_bevel_weight |-> 0,
      auto_sharp_use_curvature |-> curvature,
      auto_sharp_curvature_sensitivity |-> 1,
      auto_sharp_preserve_uv_boundaries |-> uv,
      auto_sharp_min_feature_length |-> length ]

\* the default flags of EvolverAutoSharpSettings
PlainSettings ==
    Settings(1, TRUE, TRUE, TRUE, FALSE, TRUE, TRUE, 3)

NoResults ==
    /\ angle_sharps = {}
    /\ existing_data_map = NoExistingData
    /\ curvature_sharps = {}
    /\ uv_boundaries = {}
    /\ priority_resolved_edges = NoCandidates
    /\ final_edges_to_mark = {}
    /\ first_run = None
    /\ applications = <<>>
    /\ object_mode = <<>>
    /\ active_object = NoObject
    /\ selected_objects = {}
    /\ with_block = None
    /\ obj_data = None
    /\ active_draw_handlers = <<>>
    /\ registered_handlers = {}
    /\ transient_preview = None
    /\ last_operator = None
    /\ data_objects = <<>>
    /\ data_meshes = <<>>
    /\ remesher_settings = None
    /\ calls = 0

\* a pass over a valid mesh with settings
InitPass ==
    /\ pc = "start"
    /\ \E normal \in MeshNormals, uv_active \in BOOLEAN :
           bm = Mesh(normal, uv_active, TRUE)
    /\ \E angle \in 0..MaxAngle, sharps \in BOOLEAN, creases \in BOOLEAN,
          seams \in BOOLEAN, bevels \in BOOLEAN, curvature \in BOOLEAN,
          uv \in BOOLEAN, length \in 1..MaxFeatureLength :
           settings = Settings(angle, sharps, creases, seams, bevels,
                               curvature, uv, length)
    /\ all_detected_candidates_map = NoCandidates
    /\ selected_sharp_edges = {}
    /\ NoResults

\* a pass whose precondition fails: no mesh, an invalid mesh, no settings
InitBroken ==
    /\ pc = "start"
    /\ \/ bm = None /\ settings = PlainSettings
       \/ bm = Mesh(DefaultNormals, TRUE, FALSE) /\ settings = PlainSettings
       \/ bm = Mesh(DefaultNormals, TRUE, TRUE) /\ settings = None
    /\ all_detected_candidates_map = NoCandidates
    /\ selected_sharp_edges = {}
    /\ NoResults

Init == InitPass \/ InitBroken

Next == AutoDetect

Spec == Init /\ [][Next]_vars

-----------------------------------------------------------------------------
(* am3_filter_refine_prioritize on candidate maps of its own *)

DetectionTypes ==
    {PRIORITY_ORDER[i] : i \in 1..Len(PRIORITY_ORDER)} \cup {TYPE_NONE}

Detections == DetectionTypes \X (1..MaxMetric)

DetectionLists ==
    UNION {[1..n -> Detections] : n \in 0..MaxDetections}

\* e1 has any list of at most MaxDetections detections; e2 is no key, or has
\* an empty list, or one ANGLE_SHARP detection
InitAM3 ==
    /\ pc = "start"
    /\ bm = Mesh(DefaultNormals, TRUE, TRUE)
    /\ \E length \in 1..MaxFeatureLength :
           settings = Settings(1, TRUE, TRUE, TRUE, FALSE, TRUE, TRUE, length)
    /\ \E detections \in DetectionLists :
          \/ all_detected_candidates_map = ("e1" :> detections)
          \/ \E other \in {<<>>, << <<TYPE_ANGLE_SHARP, 1>> >>} :
                all_detected_candidates_map =
                    ("e1" :> detections) @@ ("e2" :> other)
    /\ selected_sharp_edges = {}
    /\ NoResults

NextAM3 == AM3Call

SpecAM3 == InitAM3 /\ [][NextAM3]_vars

\* every edge has no detection, an ANGLE_SHARP one, a CURVATURE_SHARP one, or
\* one of a third type, which is the same for all edges of the map
InitChain ==
    /\ pc = "start"
    /\ bm = Mesh(DefaultNormals, TRUE, TRUE)
    /\ \E length \in 1..MaxFeatureLength :
           settings = Settings(1, TRUE, TRUE, TRUE, FALSE, TRUE, TRUE, length)
    /\ \E third \in DetectionTypes \ {TYPE_ANGLE_SHARP, TYPE_CURVATURE_SHARP} :
       \E choice \in [MeshEdges ->
                        {"none", TYPE_ANGLE_SHARP, TYPE_CURVATURE_SHARP, third}] :
           all_detected_candidates_map =
               [e \in {x \in MeshEdges : choice[x] # "none"} |->
                    << <<choice[e], 1>> >>]
    /\ selected_sharp_edges = {}
    /\ NoResults

SpecChain == InitChain /\ [][NextAM3]_vars

-----------------------------------------------------------------------------
(* The detection pass over authored edge data *)

\* three faces a step apart: e2 and e3 have angle 1, e4 has angle 2
SpreadNormals == ("f1" :> 0) @@ ("f2" :> 1) @@ ("f3" :> 2)

\* the mesh with the given attributes on the interior edge e2
MeshWith(smooth, use_edge_sharp, crease, seam, bevel_weight) ==
    [Mesh(SpreadNormals, TRUE, TRUE) EXCEPT
        !.smooth["e2"] = smooth,
        !.use_edge_sharp["e2"] = use_edge_sharp,
        !.crease["e2"] = crease,
        !.seam["e2"] = seam,
        !.bevel_weight["e2"] = bevel_weight]

InitAuthored ==
    /\ pc = "start"
    /\ \E smooth \in BOOLEAN, use_edge_sharp \in BOOLEAN, crease \in 0..MaxWeight,
          seam \in BOOLEAN, bevel_weight \in 0..MaxWeight :
           bm = MeshWith(smooth, use_edge_sharp, crease, seam, bevel_weight)
    /\ \E angle \in 0..MaxAngle, sharps \in BOOLEAN, creases \in BOOLEAN,
          seams \in BOOLEAN, bevels \in BOOLEAN,
          min_crease \in 0..MaxWeight, min_bevel \in 0..MaxWeight :
           settings =
               [Settings(angle, sharps, creases, seams, bevels, TRUE, TRUE, 3)
                  EXCEPT !.auto_sharp_min_crease_value = min_crease,
                         !.auto_sharp_min_bevel_weight = min_bevel]
    /\ all_detected_candidates_map = NoCandidates
    /\ selected_sharp_edges = {}
    /\ NoResults

SpecAuthored == InitAuthored /\ [][Next]_vars

-----------------------------------------------------------------------------
(* Two passes over the same mesh *)

NextRerun == AutoDetect \/ Rerun

SpecRerun == Init /\ [][NextRerun]_vars

-----------------------------------------------------------------------------
(* am4_apply_sharps_to_bmesh on a mesh some edges of which were removed *)

\* the mesh after the edges of the set were deleted, with the faces they bound
MeshWithout(mesh, removed) ==
    LET gone == UNION {{mesh.link_faces[e][i] :
                           i \in 1..Len(mesh.link_faces[e])} : e \in removed}
    IN  [mesh EXCEPT
            !.edges = @ \ removed,
            !.link_faces = [e \in DOMAIN @ |->
                               SelectSeq(@[e], LAMBDA f : f \notin gone)]]

\* the sets of edges marked sharp before the call
SharpPatterns == {{}, {"e2"}, {"e1", "e2", "e3"}, MeshEdges}

\* any set of edge references, some of them to removed edges, or no mesh
InitApply ==
    /\ pc = "start"
    /\ \/ bm = None
       \/ \E removed \in SUBSET MeshEdges, sharp \in SharpPatterns :
             bm = MeshWithout(
                    [Mesh(DefaultNormals, TRUE, TRUE) EXCEPT
                        !.use_edge_sharp = [e \in MeshEdges |-> e \in sharp],
                        !.smooth = [e \in MeshEdges |-> e \notin sharp]],
                    removed)
    /\ settings = PlainSettings
    /\ selected_sharp_edges \in SUBSET MeshEdges
    /\ all_detected_candidates_map = NoCandidates
    /\ NoResults

NextApply == AutoDetect \/ AM4Call

SpecApply == InitApply /\ [][NextApply]_vars

-----------------------------------------------------------------------------
(* The detection pass over a closed cube *)

CubeEdges ==
    {"v1", "v2", "v3", "v4", "b1", "b2", "b3", "b4", "t1", "t2", "t3", "t4"}

\* corners 1..4 below and 5..8 above them
CubeVerts ==
    ("v1" :> {1, 5}) @@ ("v2" :> {2, 6}) @@ ("v3" :> {3, 7}) @@ ("v4" :> {4, 8})
    @@ ("b1" :> {1, 2}) @@ ("b2" :> {2, 3}) @@ ("b3" :> {3, 4})
    @@ ("b4" :> {4, 1})
    @@ ("t1" :> {5, 6}) @@ ("t2" :> {6, 7}) @@ ("t3" :> {7, 8})
    @@ ("t4" :> {8, 5})

\* four side faces, the bottom and the top: every edge has two faces
CubeLinkFaces ==
    ("v1" :> <<"s4", "s1">>) @@ ("v2" :> <<"s1", "s2">>)
    @@ ("v3" :> <<"s2", "s3">>) @@ ("v4" :> <<"s3", "s4">>)
    @@ ("b1" :> <<"s1", "bottom">>) @@ ("b2" :> <<"s2", "bottom">>)
    @@ ("b3" :> <<"s3", "bottom">>) @@ ("b4" :> <<"s4", "bottom">>)
    @@ ("t1" :> <<"s1", "top">>) @@ ("t2" :> <<"s2", "top">>)
    @@ ("t3" :> <<"s3", "top">>) @@ ("t4" :> <<"s4", "top">>)

\* the side faces a quarter turn apart, the top up, the bottom down
CubeNormals ==
    ("s1" :> 0) @@ ("s2" :> NDirs \div 4) @@ ("s3" :> NDirs \div 2)
    @@ ("s4" :> (NDirs \div 2) + (NDirs \div 4))
    @@ ("top" :> Up) @@ ("bottom" :> Down)

\* the cube with one edge flagged as seam and no other authored data
Cube(seam_edge, uv_active) ==
    [ edges |-> CubeEdges,
      verts |-> CubeVerts,
      link_faces |-> CubeLinkFaces,
      normal |-> CubeNormals,
      smooth |-> [e \in CubeEdges |-> TRUE],
      use_edge_sharp |-> [e \in CubeEdges |-> FALSE],
      crease |-> [e \in CubeEdges |-> 0],
      seam |-> [e \in CubeEdges |-> e = seam_edge],
      bevel_weight |-> [e \in CubeEdges |-> 0],
      uv_active |-> uv_active,
      is_valid |-> TRUE ]

\* 30 degrees in steps of 360/NDirs degrees, rounded down
ThirtyDegrees == NDirs \div 12

\* threshold 30 degrees, seams used, min feature length 1; any other flags
InitCube ==
    /\ pc = "start"
    /\ \E seam_edge \in CubeEdges, uv_active \in BOOLEAN :
           bm = Cube(seam_edge, uv_active)
    /\ \E sharps \in BOOLEAN, creases \in BOOLEAN, bevels \in BOOLEAN,
          curvature \in BOOLEAN, uv \in BOOLEAN :
           settings = Settings(ThirtyDegrees, sharps, creases, TRUE, bevels,
                               curvature, uv, 1)
    /\ all_detected_candidates_map = NoCandidates
    /\ selected_sharp_edges = {}
    /\ NoResults

SpecCube == InitCube /\ [][Next]_vars

-----------------------------------------------------------------------------
(* utils.bmesh_from_obj: the context manager, entered and left *)

\* two mesh objects and a curve
ObjectNames == {"Cube", "Plane", "Path"}

ObjectType == ("Cube" :> "MESH") @@ ("Plane" :> "MESH") @@ ("Path" :> "CURVE")

\* bpy.context.mode: the mode of the active object, as the context names it
ContextMode(modes, active) ==
    IF active # NoObject /\ modes[active] = "EDIT"
      THEN "EDIT_MESH" ELSE "OBJECT"

\* bpy.ops.object.mode_set(mode=...): the mode of the active object changes
mode_set(modes, active, mode) ==
    IF active = NoObject THEN modes
    ELSE [modes EXCEPT ![active] = IF mode = "EDIT_MESH" THEN "EDIT" ELSE mode]

\* the branch the try block takes for obj (a mesh object) and mode
EntryBranch(obj, mode) ==
    IF mode = "EDIT" /\ object_mode[obj] = "EDIT" THEN "edit_mesh"
    ELSE IF mode = "EDIT" THEN "switched"
    ELSE "new"

\* the branch the finally block takes
ExitBranch(frame) ==
    IF frame.mode = "EDIT" /\ object_mode[frame.obj] = "EDIT" THEN "edit_mesh"
    ELSE IF frame.mode = "EDIT" /\ frame.original_mode # "EDIT" THEN "switched"
    ELSE "new"

\* bmesh_from_obj(obj, mode) up to its yield
BMeshFromObjEnter ==
    /\ pc = "start"
    /\ pc' = "inside"
    /\ \E obj \in ObjectNames \cup {NoObject}, mode \in {"OBJECT", "EDIT"} :
         IF obj = NoObject \/ ObjectType[obj] # "MESH"
           THEN /\ with_block' = [ obj |-> obj, mode |-> mode, bm |-> "None",
                                   entry |-> "none",
                                   original_mode |-> "None",
                                   active_object_was |-> NoObject,
                                   selected_objects_were |-> {},
                                   freed |-> 0 ]
                /\ UNCHANGED <<object_mode, active_object>>
           ELSE /\ with_block' =
                      [ obj |-> obj, mode |-> mode,
                        bm |-> IF EntryBranch(obj, mode) = "new"
                                 THEN "new" ELSE "edit_mesh",
                        entry |-> EntryBranch(obj, mode),
                        original_mode |-> ContextMode(object_mode, active_object),
                        active_object_was |-> active_object,
                        selected_objects_were |-> selected_objects,
                        freed |-> 0 ]
                /\ IF EntryBranch(obj, mode) = "switched"
                     THEN /\ active_object' = obj
                          /\ object_mode' = mode_set(object_mode, obj, "EDIT")
                     ELSE UNCHANGED <<object_mode, active_object>>
    /\ UNCHANGED <<selected_objects, obj_data, active_draw_handlers,
                   registered_handlers, transient_preview, last_operator,
                   data_objects, data_meshes, remesher_settings, calls>>
    /\ UNCHANGED <<bm, settings, results, first_run, selected_sharp_edges,
                   applications>>

\* the finally block of bmesh_from_obj, run when the with block is left
BMeshFromObjExit ==
    /\ pc = "inside"
    /\ pc' = "exited"
    /\ IF with_block.bm = "None"
         THEN UNCHANGED <<with_block, object_mode, active_object,
                          selected_objects>>
       ELSE IF ExitBranch(with_block) = "edit_mesh"
         THEN UNCHANGED <<with_block, object_mode, active_object,
                          selected_objects>>
       ELSE IF ExitBranch(with_block) = "switched"
         THEN /\ object_mode' = mode_set(object_mode, active_object,
                                         with_block.original_mode)
              /\ active_object' = with_block.active_object_was
              /\ selected_objects' = with_block.selected_objects_were
              /\ UNCHANGED with_block
       ELSE /\ with_block' = [with_block EXCEPT !.freed = @ + 1]
            /\ UNCHANGED <<object_mode, active_object, selected_objects>>
    /\ UNCHANGED <<obj_data, active_draw_handlers, registered_handlers,
                   transient_preview, last_operator, data_objects, data_meshes,
                   remesher_settings, calls>>
    /\ UNCHANGED <<bm, settings, results, first_run, selected_sharp_edges,
                   applications>>

\* any active object and selection; at most the active object is in edit mode
InitBMeshFromObj ==
    /\ pc = "start"
    /\ bm = None
    /\ settings = None
    /\ all_detected_candidates_map = NoCandidates
    /\ selected_sharp_edges = {}
    /\ angle_sharps = {}
    /\ existing_data_map = NoExistingData
    /\ curvature_sharps = {}
    /\ uv_boundaries = {}
    /\ priority_resolved_edges = NoCandidates
    /\ final_edges_to_mark = {}
    /\ first_run = None
    /\ applications = <<>>
    /\ active_object \in ObjectNames \cup {NoObject}
    /\ selected_objects \in SUBSET ObjectNames
    /\ \E edit \in BOOLEAN :
          object_mode =
            [o \in ObjectNames |->
               IF edit /\ o = active_object /\ ObjectType[o] = "MESH"
                 THEN "EDIT" ELSE "OBJECT"]
    /\ with_block = None
    /\ obj_data = None
    /\ active_draw_handlers = <<>>
    /\ registered_handlers = {}
    /\ transient_preview = None
    /\ last_operator = None
    /\ data_objects = <<>>
    /\ data_meshes = <<>>
    /\ remesher_settings = None
    /\ calls = 0

NextBMeshFromObj == BMeshFromObjEnter \/ BMeshFromObjExit

SpecBMeshFromObj == InitBMeshFromObj /\ [][NextBMeshFromObj]_vars

-----------------------------------------------------------------------------
(* draw_handlers: the registry of preview handlers *)

\* context.area of the calls; hash(context.area) tells them apart
Areas == {"area1", "area2", "area3"}

\* a dict without one key
WithoutKey(dict, key) == [k \in (DOMAIN dict) \ {key} |-> dict[k]]

ValuesOf(dict) == {dict[k] : k \in DOMAIN dict}

\* the return value of remove_preview_handler: a handler was popped
remove_preview_handler_returns(handlers, area) ==
    area \in DOMAIN handlers

remove_preview_handler_KeepsRegistered(handlers, registered, area) ==
    [ handlers |-> WithoutKey(handlers, area), registered |-> registered ]

\* remove_preview_handler(context): _active_draw_handlers and the handlers
\* of SpaceView3D after the call
remove_preview_handler(handlers, registered, area) ==
    IF area \in DOMAIN handlers
      THEN [ handlers |-> WithoutKey(handlers, area),
             registered |-> registered \ {handlers[area]} ]
      ELSE [ handlers |-> handlers, registered |-> registered ]

\* edge_vertex_coords: the edges that are valid and have two vertices
EdgeVertexCoords(mesh, edges_bm) ==
    {edge \in edges_bm :
        IsMarkable(mesh, edge) /\ Cardinality(mesh.verts[edge]) = 2}

add_preview_handler_NoRemoveFirst(handlers, registered, area, obj, edges_bm, handler) ==
    IF obj = None \/ edges_bm = {} THEN
      [ handlers |-> handlers, registered |-> registered ]
    ELSE IF EdgeVertexCoords(obj, edges_bm) = {} THEN
      [ handlers |-> handlers, registered |-> registered ]
    ELSE
      [ handlers |-> (area :> handler) @@ handlers,
        registered |-> registered \cup {handler} ]

\* add_preview_handler(context, obj, edges_bm); obj is given by its mesh
\* data, and handler is what draw_handler_add returns
add_preview_handler(handlers, registered, area, obj, edges_bm, handler) ==
    LET removed == remove_preview_handler(handlers, registered, area) IN
    IF obj = None \/ edges_bm = {} THEN removed
    ELSE IF EdgeVertexCoords(obj, edges_bm) = {} THEN removed
    ELSE
      [ handlers |-> (area :> handler) @@ removed.handlers,
        registered |-> removed.registered \cup {handler} ]

\* clear_all_preview_handlers()
clear_all_preview_handlers(handlers, registered) ==
    [ handlers |-> <<>>, registered |-> registered \ ValuesOf(handlers) ]

\* the variables the draw handler functions leave alone
handlers_frame == <<settings, detection_vars, object_mode, active_object,
                    selected_objects, with_block, obj_data, transient_preview,
                    data_objects, data_meshes, remesher_settings>>

AddPreviewHandler ==
    /\ calls < MaxCalls
    /\ calls' = calls + 1
    /\ \E area \in Areas, obj \in {None, obj_data},
          edges_bm \in {{}, {"e6"}, {"e1", "e6"}, {"e1", "e2"}} :
         LET after == add_preview_handler(active_draw_handlers,
                                          registered_handlers, area, obj,
                                          edges_bm, calls + 1)
         IN  /\ active_draw_handlers' = after.handlers
             /\ registered_handlers' = after.registered
             /\ last_operator' = [ op |-> "add_preview_handler",
                                   area |-> area ]
    /\ UNCHANGED handlers_frame

RemovePreviewHandler ==
    /\ calls < MaxCalls
    /\ calls' = calls + 1
    /\ \E area \in Areas :
         LET after == remove_preview_handler(active_draw_handlers,
                                             registered_handlers, area)
         IN  /\ active_draw_handlers' = after.handlers
             /\ registered_handlers' = after.registered
             /\ last_operator' = [ op |-> "remove_preview_handler",
                                   area |-> area ]
    /\ UNCHANGED handlers_frame

ClearAllPreviewHandlers ==
    /\ calls < MaxCalls
    /\ calls' = calls + 1
    /\ LET after == clear_all_preview_handlers(active_draw_handlers,
                                               registered_handlers)
       IN  /\ active_draw_handlers' = after.handlers
           /\ registered_handlers' = after.registered
    /\ last_operator' = [ op |-> "clear_all_preview_handlers",
                          area |-> "None" ]
    /\ UNCHANGED handlers_frame

\* the module as loaded: no handler; the mesh has lost its edge e6
InitHandlers ==
    /\ pc = "start"
    /\ bm = None
    /\ settings = PlainSettings
    /\ all_detected_candidates_map = NoCandidates
    /\ selected_sharp_edges = {}
    /\ angle_sharps = {}
    /\ existing_data_map = NoExistingData
    /\ curvature_sharps = {}
    /\ uv_boundaries = {}
    /\ priority_resolved_edges = NoCandidates
    /\ final_edges_to_mark = {}
    /\ first_run = None
    /\ applications = <<>>
    /\ object_mode = ("Cube" :> "OBJECT")
    /\ active_object = "Cube"
    /\ selected_objects = {"Cube"}
    /\ with_block = None
    /\ obj_data = MeshWithout(Mesh(DefaultNormals, TRUE, TRUE), {"e6"})
    /\ active_draw_handlers = <<>>
    /\ registered_handlers = {}
    /\ transient_preview = None
    /\ last_operator = None
    /\ data_objects = <<>>
    /\ data_meshes = <<>>
    /\ remesher_settings = None
    /\ calls = 0

NextHandlers ==
    AddPreviewHandler \/ RemovePreviewHandler \/ ClearAllPreviewHandlers

SpecHandlers == InitHandlers /\ [][NextHandlers]_vars

-----------------------------------------------------------------------------
(* operators_auto_sharp: Preview, Apply and Clear *)

\* the set auto_detect_and_mark_edges(bm, settings) returns
auto_detect_and_mark_edges(mesh, cfg) ==
    IF ~PassRuns(mesh, cfg) THEN {}
    ELSE
      LET candidates ==
            Aggregate(cfg,
                am2a_dihedral_angle_analysis(mesh, cfg.auto_sharp_primary_angle),
                am2b_existing_blender_data_scan(
                    mesh,
                    cfg.auto_sharp_use_existing_sharps,
                    cfg.auto_sharp_use_existing_creases,
                    cfg.auto_sharp_min_crease_value,
                    cfg.auto_sharp_use_existing_seams,
                    cfg.auto_sharp_use_bevel_weights,
                    cfg.auto_sharp_min_bevel_weight),
                IF cfg.auto_sharp_use_curvature
                  THEN am2c_curvature_based_analysis(
                           mesh, cfg.auto_sharp_curvature_sensitivity)
                  ELSE {},
                IF cfg.auto_sharp_preserve_uv_boundaries
                  THEN am2d_uv_island_boundary_analysis(mesh)
                  ELSE {})
      IN  IF DOMAIN candidates = {} THEN {}
          ELSE am3_filter_refine_prioritize(mesh, candidates,
                                            cfg.auto_sharp_min_feature_length)

\* the variables the three operators leave alone
operators_frame == <<settings, detection_vars, object_mode, active_object,
                     selected_objects, with_block, data_objects, data_meshes,
                     remesher_settings>>

\* what an operator call did: its result, the edges detected, marked_count,
\* the BMesh it made ("new", "edit_mesh" or "none") and the calls of bm.free()
Outcome(op, area, result, detected, marked_count, created, free_calls) ==
    [ op |-> op, area |-> area, result |-> result, detected |-> detected,
      marked_count |-> marked_count, created |-> created,
      free_calls |-> free_calls ]

\* OBJECT_OT_EvolverAutoDetectPreviewSharps.execute, called from an area
PreviewExecute(area) ==
    LET mode == object_mode[active_object]
        created == IF mode = "EDIT" THEN "edit_mesh" ELSE "new"
        exit_frees == IF mode = "EDIT" THEN 0 ELSE 1
        removed == remove_preview_handler(active_draw_handlers,
                                          registered_handlers, area)
        detected_bm_edges == auto_detect_and_mark_edges(obj_data, settings)
    IN
    IF settings = None THEN
      /\ last_operator' = Outcome("preview", area, "CANCELLED", {}, 0, "none", 0)
      /\ UNCHANGED <<obj_data, active_draw_handlers, registered_handlers,
                     transient_preview>>
    ELSE IF detected_bm_edges = {} THEN
      /\ active_draw_handlers' = removed.handlers
      /\ registered_handlers' = removed.registered
      /\ transient_preview' = None
      /\ last_operator' = Outcome("preview", area, "FINISHED", {}, 0, created,
                                  exit_frees)
      /\ UNCHANGED obj_data
    ELSE
      LET added == add_preview_handler(removed.handlers, removed.registered,
                                       area, obj_data, detected_bm_edges,
                                       calls + 1)
      IN
      /\ active_draw_handlers' = added.handlers
      /\ registered_handlers' = added.registered
      /\ transient_preview' = [ bmesh_edges |-> detected_bm_edges,
                                object_name |-> active_object ]
      /\ last_operator' = Outcome("preview", area, "FINISHED",
                                  detected_bm_edges, 0, created, exit_frees)
      /\ UNCHANGED obj_data

Preview ==
    /\ calls < MaxCalls
    /\ calls' = calls + 1
    /\ \E area \in Areas : PreviewExecute(area)
    /\ UNCHANGED operators_frame

\* the calls of Apply that may raise: none, the call that makes the BMesh
\* (bmesh.new or bmesh.from_edit_mesh), or bm.from_mesh after bmesh.new
ApplyRaises == {"none", "new", "from_mesh"}

\* bool(bm) after bm.free(): True, or False
FreedIsTruthy == BOOLEAN

\* line 154: if obj.mode == 'OBJECT' and bm: bm.free()
ApplyFreesOnReturn(mode, created) ==
    IF mode = "OBJECT" /\ created # "none" THEN 1 ELSE 0

\* the finally block: if obj.mode == 'OBJECT' and bm: bm.free()
ApplyFreesFinally(mode, created, bm_is_truthy) ==
    IF mode = "OBJECT" /\ created # "none" /\ bm_is_truthy THEN 1 ELSE 0

\* OBJECT_OT_EvolverAutoApplySharps.execute, called from an area
ApplyExecute(area, raises, freed_is_truthy) ==
    LET mode == object_mode[active_object]
        created == IF raises = "new" THEN "none"
                   ELSE IF mode = "EDIT" THEN "edit_mesh" ELSE "new"
        raised == raises = "new" \/ (raises = "from_mesh" /\ mode = "OBJECT")
        final_edges_to_mark_bm == auto_detect_and_mark_edges(obj_data, settings)
        marked_count == am4_apply_sharps_to_bmesh(obj_data,
                                                  final_edges_to_mark_bm,
                                                  settings)
        removed == remove_preview_handler(active_draw_handlers,
                                          registered_handlers, area)
    IN
    IF settings = None THEN
      /\ last_operator' = Outcome("apply", area, "CANCELLED", {}, 0, "none", 0)
      /\ UNCHANGED <<obj_data, active_draw_handlers, registered_handlers,
                     transient_preview>>
    ELSE IF raised THEN
      /\ last_operator' = Outcome("apply", area, "CANCELLED", {}, 0, created,
                                  ApplyFreesFinally(mode, created, TRUE))
      /\ UNCHANGED <<obj_data, active_draw_handlers, registered_handlers,
                     transient_preview>>
    ELSE IF final_edges_to_mark_bm = {} THEN
      /\ last_operator' =
            Outcome("apply", area, "FINISHED", {}, 0, created,
                    ApplyFreesOnReturn(mode, created)
                    + ApplyFreesFinally(mode, created,
                          ApplyFreesOnReturn(mode, created) = 0
                          \/ freed_is_truthy))
      /\ UNCHANGED <<obj_data, active_draw_handlers, registered_handlers,
                     transient_preview>>
    ELSE IF marked_count > 0 THEN
      /\ obj_data' = am4_applied_mesh(obj_data, final_edges_to_mark_bm)
      /\ active_draw_handlers' = removed.handlers
      /\ registered_handlers' = removed.registered
      /\ transient_preview' = None
      /\ last_operator' = Outcome("apply", area, "FINISHED",
                                  final_edges_to_mark_bm, marked_count, created,
                                  ApplyFreesFinally(mode, created, TRUE))
    ELSE
      /\ last_operator' = Outcome("apply", area, "FINISHED",
                                  final_edges_to_mark_bm, 0, created,
                                  ApplyFreesFinally(mode, created, TRUE))
      /\ UNCHANGED <<obj_data, active_draw_handlers, registered_handlers,
                     transient_preview>>

Apply ==
    /\ calls < MaxCalls
    /\ calls' = calls + 1
    /\ \E area \in Areas, raises \in ApplyRaises,
          freed_is_truthy \in FreedIsTruthy :
         ApplyExecute(area, raises, freed_is_truthy)
    /\ UNCHANGED operators_frame

\* OBJECT_OT_EvolverClearPreviewSharps.execute, called from an area
ClearExecute(area) ==
    LET removed == remove_preview_handler(active_draw_handlers,
                                          registered_handlers, area)
    IN
    /\ active_draw_handlers' = removed.handlers
    /\ registered_handlers' = removed.registered
    /\ transient_preview' =
          IF remove_preview_handler_returns(active_draw_handlers, area)
            THEN None ELSE transient_preview
    /\ last_operator' = Outcome("clear", area, "FINISHED", {}, 0, "none", 0)
    /\ UNCHANGED obj_data

Clear ==
    /\ calls < MaxCalls
    /\ calls' = calls + 1
    /\ \E area \in Areas : ClearExecute(area)
    /\ UNCHANGED operators_frame

\* settings under which the pass detects nothing on a flat mesh
QuietSettings ==
    Settings(MaxAngle, FALSE, FALSE, FALSE, FALSE, FALSE, FALSE, 3)

\* the active object is the mesh object Cube, in object or edit mode, with
\* folded or flat faces; the scene has the settings, or lacks them
InitOperators ==
    /\ pc = "start"
    /\ bm = None
    /\ settings \in {PlainSettings, QuietSettings, None}
    /\ all_detected_candidates_map = NoCandidates
    /\ selected_sharp_edges = {}
    /\ angle_sharps = {}
    /\ existing_data_map = NoExistingData
    /\ curvature_sharps = {}
    /\ uv_boundaries = {}
    /\ priority_resolved_edges = NoCandidates
    /\ final_edges_to_mark = {}
    /\ first_run = None
    /\ applications = <<>>
    /\ \E mode \in {"OBJECT", "EDIT"} : object_mode = ("Cube" :> mode)
    /\ active_object = "Cube"
    /\ selected_objects = {"Cube"}
    /\ with_block = None
    /\ obj_data \in {Mesh(SpreadNormals, TRUE, TRUE),
                      Mesh(DefaultNormals, TRUE, TRUE)}
    /\ active_draw_handlers = <<>>
    /\ registered_handlers = {}
    /\ transient_preview = None
    /\ last_operator = None
    /\ data_objects = <<>>
    /\ data_meshes = <<>>
    /\ remesher_settings = None
    /\ calls = 0

NextOperators == Preview \/ Apply \/ Clear

SpecOperators == InitOperators /\ [][NextOperators]_vars

-----------------------------------------------------------------------------
(* core_remesh_logic.perform_remeshing and the remesh operator *)

\* A mesh is the sequence of its faces, a face the sequence of the indices
\* of its vertices; a vertex of the output stands for the coordinates copied
\* from the input vertex of that index.

Max(a, b) == IF a >= b THEN a ELSE b

\* int(num_original_faces * settings.polycount_percentage)
TargetFaces(num_original_faces, cfg) ==
    (num_original_faces * cfg.polycount_percentage) \div PercentDenominator

\* the branch that computes the factor from the percentage is taken
IsRelativePolycount(cfg) ==
    cfg.target_mode = "POLYCOUNT" /\ cfg.polycount_is_percentage

\* decimation_factor when the loop starts
DecimationFactor(num_original_faces, cfg) ==
    IF IsRelativePolycount(cfg) THEN
      LET target_faces == TargetFaces(num_original_faces, cfg) IN
      IF target_faces > 0 /\ num_original_faces > 0
        THEN Max(1, num_original_faces \div target_faces)
        ELSE num_original_faces + 1
    ELSE 5

FaceIncluded_CountedFromOne(i, decimation_factor) ==
    (i + 1) % decimation_factor = 0

\* if i % decimation_factor == 0, i counted from 0
FaceIncluded(i, decimation_factor) ==
    i % decimation_factor = 0

\* for vert in face.verts, from position k on
RECURSIVE FaceVertsLoop(_, _, _)
FaceVertsLoop(face_verts, k, acc) ==
    IF k > Len(face_verts) THEN acc
    ELSE
      LET vert_index == face_verts[k]
          added ==
            IF vert_index \notin DOMAIN acc.output_verts_dict
              THEN [acc EXCEPT
                      !.output_verts_dict =
                          (vert_index :> acc.vert_idx_counter) @@ @,
                      !.new_verts_list = Append(@, vert_index),
                      !.vert_idx_counter = @ + 1]
              ELSE acc
      IN  FaceVertsLoop(face_verts, k + 1,
              [added EXCEPT !.face_vert_indices =
                   Append(@, added.output_verts_dict[vert_index])])

\* for i, face in enumerate(bm.faces), from face i on
RECURSIVE FacesLoop(_, _, _, _)
FacesLoop(faces, i, decimation_factor, acc) ==
    IF i >= Len(faces) THEN acc
    ELSE IF FaceIncluded(i, decimation_factor) THEN
      LET after == FaceVertsLoop(faces[i + 1], 1,
                                 [acc EXCEPT !.face_vert_indices = <<>>])
      IN  FacesLoop(faces, i + 1, decimation_factor,
              [after EXCEPT !.new_faces_list =
                   Append(@, after.face_vert_indices)])
    ELSE FacesLoop(faces, i + 1, decimation_factor, acc)

\* perform_remeshing(context, input, settings, original_object): None, or
\* the pair (new_verts_list, new_faces_list)
perform_remeshing(faces, cfg, is_bmesh) ==
    IF ~is_bmesh THEN None
    ELSE
      LET out == FacesLoop(faces, 0, DecimationFactor(Len(faces), cfg),
                           [ output_verts_dict |-> <<>>,
                             new_verts_list |-> <<>>,
                             new_faces_list |-> <<>>,
                             vert_idx_counter |-> 0,
                             face_vert_indices |-> <<>> ])
      IN  IF out.new_verts_list = <<>> \/ out.new_faces_list = <<>>
            THEN None
            ELSE [ verts |-> out.new_verts_list, faces |-> out.new_faces_list ]

\* what a call did: its result, its inputs and new_mesh_data_tuple
Remeshed(op, result, original, input, cfg, is_bmesh, new_mesh_data_tuple) ==
    [ op |-> op, result |-> result, original |-> original, input |-> input,
      settings |-> cfg, is_bmesh |-> is_bmesh,
      new_mesh_data_tuple |-> new_mesh_data_tuple ]

\* the variables the remesh operator and perform_remeshing leave alone
remesh_frame == <<settings, detection_vars, object_mode, with_block, obj_data,
                  active_draw_handlers, registered_handlers, transient_preview>>

\* a call of perform_remeshing on a mesh datablock, with a BMesh made from
\* it or with the datablock itself
PerformRemeshing ==
    /\ calls < MaxCalls
    /\ calls' = calls + 1
    /\ remesher_settings # None
    /\ \E name \in DOMAIN data_meshes, is_bmesh \in BOOLEAN :
         last_operator' =
             Remeshed("perform_remeshing", "returned", "None",
                      data_meshes[name], remesher_settings, is_bmesh,
                      perform_remeshing(data_meshes[name], remesher_settings,
                                        is_bmesh))
    /\ UNCHANGED <<remesh_frame, data_objects, data_meshes, active_object,
                   selected_objects, remesher_settings>>

\* EvolverRemesherSettings as a new object has them
DefaultRemesherSettings ==
    [ target_mode |-> "POLYCOUNT",
      polycount_is_percentage |-> TRUE,
      polycount_percentage |-> PercentDenominator \div 2,
      non_destructive_mode |-> TRUE,
      output_suffix |-> "_remeshed" ]

CreatesNewObject_Never(cfg) ==
    FALSE

\* if remesher_settings.non_destructive_mode (line 158)
CreatesNewObject(cfg) ==
    cfg.non_destructive_mode

\* OBJECT_OT_EvolverRemeshOperator.execute
RemeshExecute ==
    /\ calls < MaxCalls
    /\ calls' = calls + 1
    /\ IF active_object = NoObject THEN
         /\ last_operator' = Remeshed("remesh", "CANCELLED", active_object,
                                      <<>>, None, FALSE, None)
         /\ UNCHANGED <<data_objects, data_meshes, active_object,
                        selected_objects, remesher_settings>>
       ELSE IF data_objects[active_object].type # "MESH"
               \/ remesher_settings = None THEN
         /\ last_operator' = Remeshed("remesh", "CANCELLED", active_object,
                                      <<>>, None, FALSE, None)
         /\ UNCHANGED <<data_objects, data_meshes, active_object,
                        selected_objects, remesher_settings>>
       ELSE
         LET data_name == data_objects[active_object].data
             input_mesh_data == data_meshes[data_name]
             new_mesh_data_tuple ==
                 perform_remeshing(input_mesh_data, remesher_settings, TRUE)
             new_mesh_name == data_name \o "_remesh_data"
             new_obj_name == active_object \o remesher_settings.output_suffix
         IN
         IF new_mesh_data_tuple = None THEN
           /\ last_operator' = Remeshed("remesh", "CANCELLED", active_object,
                                        input_mesh_data, remesher_settings,
                                        TRUE, new_mesh_data_tuple)
           /\ UNCHANGED <<data_objects, data_meshes, active_object,
                          selected_objects, remesher_settings>>
         ELSE IF new_mesh_data_tuple.verts = <<>>
                 \/ new_mesh_data_tuple.faces = <<>> THEN
           /\ last_operator' = Remeshed("remesh", "CANCELLED", active_object,
                                        input_mesh_data, remesher_settings,
                                        TRUE, new_mesh_data_tuple)
           /\ UNCHANGED <<data_objects, data_meshes, active_object,
                          selected_objects, remesher_settings>>
         ELSE
           \* bpy.data gives the requested names: they are not in use
           /\ new_mesh_name \notin DOMAIN data_meshes
           /\ CreatesNewObject(remesher_settings)
                 => new_obj_name \notin DOMAIN data_objects
           /\ last_operator' = Remeshed("remesh", "FINISHED", active_object,
                                        input_mesh_data, remesher_settings,
                                        TRUE, new_mesh_data_tuple)
           /\ IF CreatesNewObject(remesher_settings) THEN
                /\ data_meshes' =
                       (new_mesh_name :> new_mesh_data_tuple.faces)
                       @@ data_meshes
                /\ data_objects' =
                       (new_obj_name :> [ type |-> "MESH",
                                          data |-> new_mesh_name ])
                       @@ data_objects
                /\ selected_objects' =
                       (selected_objects \ {active_object})
                       \cup {new_obj_name}
                /\ active_object' = new_obj_name
                /\ remesher_settings' = DefaultRemesherSettings
              ELSE
                /\ data_meshes' =
                       [data_meshes EXCEPT
                          ![data_name] = new_mesh_data_tuple.faces]
                /\ UNCHANGED <<data_objects, active_object,
                               selected_objects, remesher_settings>>
    /\ UNCHANGED remesh_frame

\* meshes of n triangles: a strip, a fan around vertex 0, separate triangles
Strip(n) == [i \in 1..n |-> <<i - 1, i, i + 1>>]

Fan(n) == [i \in 1..n |-> <<0, i, i + 1>>]

Soup(n) == [i \in 1..n |-> <<3 * i - 3, 3 * i - 2, 3 * i - 1>>]

InputMeshes ==
    UNION {{Strip(n), Fan(n), Soup(n)} : n \in 0..MaxFaces}

RemesherSettingsChoices ==
    { [ target_mode |-> target_mode,
        polycount_is_percentage |-> is_percentage,
        polycount_percentage |-> percentage,
        non_destructive_mode |-> non_destructive_mode,
        output_suffix |-> "_remeshed" ] :
        target_mode \in {"POLYCOUNT", "EDGE_LENGTH"},
        is_percentage \in BOOLEAN,
        percentage \in {1, PercentDenominator \div 2, PercentSteps},
        non_destructive_mode \in BOOLEAN }

\* a scene with the mesh object Cube and the curve object Path; one of
\* them is active, or none
InitRemesh ==
    /\ pc = "start"
    /\ bm = None
    /\ settings = PlainSettings
    /\ all_detected_candidates_map = NoCandidates
    /\ selected_sharp_edges = {}
    /\ angle_sharps = {}
    /\ existing_data_map = NoExistingData
    /\ curvature_sharps = {}
    /\ uv_boundaries = {}
    /\ priority_resolved_edges = NoCandidates
    /\ final_edges_to_mark = {}
    /\ first_run = None
    /\ applications = <<>>
    /\ object_mode = ("Cube" :> "OBJECT") @@ ("Path" :> "OBJECT")
    /\ active_object \in {"Cube", "Path", NoObject}
    /\ selected_objects = {active_object} \ {NoObject}
    /\ with_block = None
    /\ obj_data = None
    /\ active_draw_handlers = <<>>
    /\ registered_handlers = {}
    /\ transient_preview = None
    /\ last_operator = None
    /\ data_objects =
          ("Cube" :> [ type |-> "MESH", data |-> "Cube" ])
          @@ ("Path" :> [ type |-> "CURVE", data |-> "Path" ])
    /\ \E faces \in InputMeshes : data_meshes = ("Cube" :> faces)
    /\ remesher_settings \in RemesherSettingsChoices \cup {None}
    /\ calls = 0

NextRemesh == RemeshExecute \/ PerformRemeshing

SpecRemesh == InitRemesh /\ [][NextRemesh]_vars

-----------------------------------------------------------------------------
(* Vocabulary of the claims *)

\* the priority order as the specification states it (its AUTHORED_ types
\* are the source's BLENDER_ types)
StatedPriorityOrder ==
    << "UV_SEAM_BOUNDARY", "BLENDER_SEAM", "BLENDER_SHARP", "BLENDER_CREASE",
       "ANGLE_SHARP", "CURVATURE_SHARP", "BLENDER_BEVEL" >>

IsStatedType(t) ==
    \E i \in 1..Len(StatedPriorityOrder) : StatedPriorityOrder[i] = t

\* the index of a type in the stated order; an unlisted type ranks below all
StatedRank(t) ==
    IF IsStatedType(t)
      THEN CHOOSE i \in 1..Len(StatedPriorityOrder) : StatedPriorityOrder[i] = t
      ELSE Len(StatedPriorityOrder) + 1

TypesOf(detections) == {detections[k][1] : k \in 1..Len(detections)}

RecordsOf(detections) == {detections[k] : k \in 1..Len(detections)}

\* a list as the detectors emit it: one record per detecting source, every
\* type of the closed enumeration
IsDetectorList(detections) ==
    /\ \A k \in 1..Len(detections) : IsStatedType(detections[k][1])
    /\ \A j, k \in 1..Len(detections) :
          detections[j][1] = detections[k][1] => j = k

ListPermutations(n) ==
    {p \in [1..n -> 1..n] : \A i, j \in 1..n : p[i] = p[j] => i = j}

Permuted(detections, p) == [i \in 1..Len(detections) |-> detections[p[i]]]

Length == settings.auto_sharp_min_feature_length

\* the edges of the mesh with exactly n incident faces
EdgesWithFaces(n) ==
    {e \in bm.edges :
        Cardinality({bm.link_faces[e][i] : i \in 1..Len(bm.link_faces[e])}) = n}

\* the detectors in execution order: dihedral, authored, curvature, UV
DetectorOrder ==
    << "ANGLE_SHARP", "BLENDER_SHARP", "BLENDER_CREASE", "BLENDER_SEAM",
       "BLENDER_BEVEL", "CURVATURE_SHARP", "UV_SEAM_BOUNDARY" >>

\* the edges a detector returned under a type
EmittedBy(t) ==
    IF t = "ANGLE_SHARP" THEN angle_sharps
    ELSE IF t = "CURVATURE_SHARP" THEN curvature_sharps
    ELSE IF t = "UV_SEAM_BOUNDARY" THEN uv_boundaries
    ELSE existing_data_map[t]

\* the types of a candidate list, in list order
TypeSeq(detections) == [k \in 1..Len(detections) |-> detections[k][1]]

\* the sharp, crease, seam and bevel attributes of an edge
AuthoredAttributes(mesh, e) ==
    << mesh.smooth[e], mesh.use_edge_sharp[e], mesh.crease[e], mesh.seam[e],
       mesh.bevel_weight[e] >>

-----------------------------------------------------------------------------
(* Claims about the priority resolution, under SpecAM3 *)

\* C1: every edge with a non-empty candidate list resolves to one of its
\* candidate types, and no candidate of the list has a smaller index in the
\* stated order; a type outside the order ranks below every listed type, so
\* a recognised candidate wins over an unrecognised one wherever it sits.
C1_LowestIndexWins ==
    pc = "done" =>
      \A e \in DOMAIN all_detected_candidates_map :
        LET detections == all_detected_candidates_map[e] IN
        detections # <<>> =>
          /\ e \in DOMAIN priority_resolved_edges
          /\ priority_resolved_edges[e][1] \in TypesOf(detections)
          /\ \A t \in TypesOf(detections) :
                StatedRank(priority_resolved_edges[e][1]) <= StatedRank(t)

\* an unrecognised candidate sits first, a recognised one second, and the
\* recognised one won
C1_Witness ==
    /\ pc = "done"
    /\ "e1" \in DOMAIN priority_resolved_edges
    /\ Len(all_detected_candidates_map["e1"]) = 2
    /\ ~IsStatedType(all_detected_candidates_map["e1"][1][1])
    /\ all_detected_candidates_map["e1"][2][1] = TYPE_BLENDER_BEVEL
    /\ priority_resolved_edges["e1"] = all_detected_candidates_map["e1"][2]

\* C2: for every edge whose candidates are a detector list (one record per
\* detecting source, as the detectors emit them in any order), every
\* permutation of the list resolves to the tag (type and metric) the edge
\* resolved to; whenever a list holds a recognised type, every permutation
\* resolves to the same type; candidates BLENDER_SEAM and ANGLE_SHARP
\* resolve to BLENDER_SEAM.
C2_OrderIndependent ==
    pc = "done" =>
      \A e \in DOMAIN priority_resolved_edges :
        LET detections == all_detected_candidates_map[e] IN
        /\ IsDetectorList(detections) =>
              \A p \in ListPermutations(Len(detections)) :
                 WinningDetection(Permuted(detections, p))
                     = priority_resolved_edges[e]
        /\ (\E t \in TypesOf(detections) : IsStatedType(t)) =>
              \A p \in ListPermutations(Len(detections)) :
                 WinningDetection(Permuted(detections, p))[1]
                     = priority_resolved_edges[e][1]
        /\ TypesOf(detections) = {"BLENDER_SEAM", "ANGLE_SHARP"}
              => priority_resolved_edges[e][1] = "BLENDER_SEAM"

\* ANGLE_SHARP was aggregated before BLENDER_SEAM and the seam won
C2_Witness ==
    /\ pc = "done"
    /\ all_detected_candidates_map["e1"] =
           << <<TYPE_ANGLE_SHARP, 1>>, <<TYPE_BLENDER_SEAM, 2>> >>
    /\ priority_resolved_edges["e1"] = <<TYPE_BLENDER_SEAM, 2>>

\* C3: an edge whose candidates are all of types outside the priority order
\* is resolved to one of its candidates and is in the set returned.
C3_UnrecognisedKept ==
    pc = "done" =>
      \A e \in DOMAIN all_detected_candidates_map :
        LET detections == all_detected_candidates_map[e] IN
        (detections # <<>> /\ \A t \in TypesOf(detections) : ~IsStatedType(t)) =>
          /\ e \in DOMAIN priority_resolved_edges
          /\ priority_resolved_edges[e] \in RecordsOf(detections)
          /\ e \in final_edges_to_mark

-----------------------------------------------------------------------------
(* Claims about the chain filter, under SpecChain *)

\* C4: no edge of a chain of ANGLE_SHARP or CURVATURE_SHARP edges that is
\* shorter than min_feature_length and touches no junction vertex is in the
\* final set.
C4_ShortChainsDiscarded ==
    pc = "done" =>
      \A e \in GeometricEdges(priority_resolved_edges) :
        LET chain == ChainOf(bm, priority_resolved_edges, e) IN
        ( /\ Cardinality(chain) < Length
          /\ \A c \in chain : \A v \in bm.verts[c] :
                ~IsJunction(bm, priority_resolved_edges, v) )
        => chain \cap final_edges_to_mark = {}

\* C5: every edge resolved to ANGLE_SHARP or CURVATURE_SHARP that belongs to
\* a chain of at least min_feature_length edges is in the final set.
C5_LongChainsKept ==
    pc = "done" =>
      \A e \in GeometricEdges(priority_resolved_edges) :
        Cardinality(ChainOf(bm, priority_resolved_edges, e)) >= Length
          => e \in final_edges_to_mark

\* a chain of exactly min_feature_length >= 3 edges with no junction, all kept
C5_Witness ==
    /\ pc = "done"
    /\ Length >= 3
    /\ \E e \in GeometricEdges(priority_resolved_edges) :
         LET chain == ChainOf(bm, priority_resolved_edges, e) IN
         /\ Cardinality(chain) = Length
         /\ \A c \in chain : \A v \in bm.verts[c] :
               ~IsJunction(bm, priority_resolved_edges, v)
         /\ chain \subseteq final_edges_to_mark

\* C6: an edge resolved to ANGLE_SHARP or CURVATURE_SHARP in a chain shorter
\* than min_feature_length is in the final set when one of its vertices is
\* incident to 3 or more resolved sharp edges.
C6_JunctionException ==
    pc = "done" =>
      \A e \in GeometricEdges(priority_resolved_edges) :
        ( /\ Cardinality(ChainOf(bm, priority_resolved_edges, e)) < Length
          /\ \E v \in bm.verts[e] : IsJunction(bm, priority_resolved_edges, v) )
        => e \in final_edges_to_mark

\* a 1-edge ANGLE_SHARP chain at a vertex with 3 other resolved sharp edges,
\* kept with min_feature_length = 5
C6_Witness ==
    /\ pc = "done"
    /\ Length = 5
    /\ \E e \in GeometricEdges(priority_resolved_edges) :
         /\ priority_resolved_edges[e][1] = TYPE_ANGLE_SHARP
         /\ ChainOf(bm, priority_resolved_edges, e) = {e}
         /\ \E v \in bm.verts[e] :
               Cardinality({o \in SharpEdges(priority_resolved_edges) \ {e} :
                              v \in bm.verts[o]}) >= 3
         /\ e \in final_edges_to_mark

\* C7: every edge resolved to UV_SEAM_BOUNDARY, BLENDER_SEAM, BLENDER_SHARP,
\* BLENDER_CREASE or BLENDER_BEVEL is in the final set, for every
\* min_feature_length and every neighbourhood.
C7_AuthoredBypass ==
    pc = "done" =>
      \A e \in DOMAIN priority_resolved_edges :
        priority_resolved_edges[e][1] \in
            {"UV_SEAM_BOUNDARY", "BLENDER_SEAM", "BLENDER_SHARP",
             "BLENDER_CREASE", "BLENDER_BEVEL"}
          => e \in final_edges_to_mark

\* the only resolved edge is an isolated BLENDER_BEVEL edge, kept with
\* min_feature_length >= 3
C7_Witness ==
    /\ pc = "done"
    /\ Length >= 3
    /\ DOMAIN priority_resolved_edges = {"e6"}
    /\ priority_resolved_edges["e6"][1] = TYPE_BLENDER_BEVEL
    /\ "e6" \in final_edges_to_mark

-----------------------------------------------------------------------------
(* Claims about the detectors, under Spec *)

\* C8: an edge is in the result of am2a_dihedral_angle_analysis if and only
\* if it has exactly 2 incident faces and the angle between their normals is
\* strictly greater than the threshold.
C8_DihedralDetector ==
    (pc = "done" /\ PassRuns(bm, settings)) =>
      \A e \in bm.edges :
        e \in angle_sharps <=>
          /\ e \in EdgesWithFaces(2)
          /\ NormalAngle(bm.normal[bm.link_faces[e][1]],
                         bm.normal[bm.link_faces[e][2]])
               > settings.auto_sharp_primary_angle

\* e2 is above the threshold and returned; e3 is at the threshold and not
\* returned; the non-manifold e5, whose first two faces are those of e2, and
\* the boundary edge e1 are not returned
C8_Witness ==
    /\ pc = "done"
    /\ PassRuns(bm, settings)
    /\ settings.auto_sharp_primary_angle >= 1
    /\ "e2" \in angle_sharps
    /\ DihedralAngle(bm, "e3") = settings.auto_sharp_primary_angle
    /\ "e3" \notin angle_sharps
    /\ "e5" \notin angle_sharps
    /\ "e1" \notin angle_sharps

\* C9: an edge with only one incident face never has an ANGLE_SHARP or
\* CURVATURE_SHARP candidate in the aggregated candidate map.
C9_BoundaryExcluded ==
    pc = "done" =>
      \A e \in DOMAIN all_detected_candidates_map :
        e \in EdgesWithFaces(1) =>
          TypesOf(all_detected_candidates_map[e])
              \cap {"ANGLE_SHARP", "CURVATURE_SHARP"} = {}

\* the boundary edge has candidates, other edges are ANGLE_SHARP, and the
\* curvature detector ran
C9_Witness ==
    /\ pc = "done"
    /\ PassRuns(bm, settings)
    /\ settings.auto_sharp_use_curvature
    /\ angle_sharps # {}
    /\ \E e \in DOMAIN all_detected_candidates_map :
          e \in EdgesWithFaces(1) /\ all_detected_candidates_map[e] # <<>>

\* C10: with an active UV layer and UV-boundary detection enabled, every
\* boundary edge is emitted by the UV-boundary detector and is a
\* UV_SEAM_BOUNDARY candidate with metric 1.0.
C10_BoundaryIsUVCandidate ==
    ( /\ pc = "done"
      /\ PassRuns(bm, settings)
      /\ bm.uv_active
      /\ settings.auto_sharp_preserve_uv_boundaries ) =>
      \A e \in EdgesWithFaces(1) :
        /\ e \in uv_boundaries
        /\ e \in DOMAIN all_detected_candidates_map
        /\ <<"UV_SEAM_BOUNDARY", 1>> \in RecordsOf(all_detected_candidates_map[e])


\* C11: on a mesh with no active UV layer the UV-boundary detector returns
\* the empty set, and the pass completes and returns the edges found by the
\* other detectors.
C11_NoUVGracefulPath ==
    (pc = "done" /\ PassRuns(bm, settings) /\ ~bm.uv_active) =>
      /\ uv_boundaries = {}
      /\ final_edges_to_mark =
            angle_sharps \cup curvature_sharps
            \cup UNION {existing_data_map[t] : t \in DOMAIN existing_data_map}

\* UV-boundary detection is enabled on a mesh without a UV layer that has a
\* seam, and the pass returns angle and authored edges
C11_Witness ==
    /\ pc = "done"
    /\ PassRuns(bm, settings)
    /\ ~bm.uv_active
    /\ settings.auto_sharp_preserve_uv_boundaries
    /\ \E e \in bm.edges : bm.seam[e]
    /\ angle_sharps # {}
    /\ angle_sharps \subseteq final_edges_to_mark
    /\ \E e \in final_edges_to_mark : e \notin angle_sharps

\* C15: when the mesh is missing or invalid (am1_prepare_bmesh_data fails) or
\* the settings are missing, the pass returns the empty set, no detector has
\* produced anything and no intermediate result is populated.
C15_PreconditionFailure ==
    (pc = "done" /\ (bm = None \/ settings = None \/ ~bm.is_valid)) =>
      /\ final_edges_to_mark = {}
      /\ angle_sharps = {}
      /\ existing_data_map = NoExistingData
      /\ curvature_sharps = {}
      /\ uv_boundaries = {}
      /\ all_detected_candidates_map = NoCandidates
      /\ priority_resolved_edges = NoCandidates

\* the pass ended on an invalid mesh that has authored marks, with default
\* settings, and returned nothing
C15_Witness ==
    /\ pc = "done"
    /\ bm # None
    /\ settings # None
    /\ ~bm.is_valid
    /\ \E e \in bm.edges : bm.seam[e] /\ settings.auto_sharp_use_existing_seams
    /\ existing_data_map["BLENDER_SEAM"] = {}
    /\ final_edges_to_mark = {}

-----------------------------------------------------------------------------
(* Claims about the authored data and the aggregation, under SpecAuthored *)

\* C12: for every edge and each authored type, am2b_existing_blender_data_scan
\* returns the edge under the type if and only if the type's flag is on and
\* its condition holds: marked sharp (not smooth, or use_edge_sharp), crease
\* strictly above the minimum crease, seam set, bevel weight strictly above
\* the minimum bevel weight.
C12_AuthoredDetector ==
    (pc = "done" /\ PassRuns(bm, settings)) =>
      \A e \in bm.edges :
        /\ e \in existing_data_map["BLENDER_SHARP"] <=>
              /\ settings.auto_sharp_use_existing_sharps
              /\ (~bm.smooth[e] \/ bm.use_edge_sharp[e])
        /\ e \in existing_data_map["BLENDER_CREASE"] <=>
              /\ settings.auto_sharp_use_existing_creases
              /\ bm.crease[e] > settings.auto_sharp_min_crease_value
        /\ e \in existing_data_map["BLENDER_SEAM"] <=>
              /\ settings.auto_sharp_use_existing_seams
              /\ bm.seam[e]
        /\ e \in existing_data_map["BLENDER_BEVEL"] <=>
              /\ settings.auto_sharp_use_bevel_weights
              /\ bm.bevel_weight[e] > settings.auto_sharp_min_bevel_weight

\* e2 is returned as sharp and as crease at once; it is a seam but seams are
\* disabled and nothing is returned as seam; its bevel weight equals the
\* minimum, bevels are enabled, and it is not returned as bevel
C12_Witness ==
    /\ pc = "done"
    /\ "e2" \in existing_data_map["BLENDER_SHARP"]
    /\ "e2" \in existing_data_map["BLENDER_CREASE"]
    /\ bm.seam["e2"]
    /\ ~settings.auto_sharp_use_existing_seams
    /\ existing_data_map["BLENDER_SEAM"] = {}
    /\ settings.auto_sharp_use_bevel_weights
    /\ bm.bevel_weight["e2"] = settings.auto_sharp_min_bevel_weight
    /\ bm.bevel_weight["e2"] > 0
    /\ "e2" \notin existing_data_map["BLENDER_BEVEL"]

\* C13: in the aggregated candidate map every ANGLE_SHARP candidate carries
\* the dihedral angle of its edge, every BLENDER_CREASE candidate the crease
\* of its edge, every BLENDER_BEVEL candidate the bevel weight of its edge,
\* and BLENDER_SHARP, BLENDER_SEAM and UV_SEAM_BOUNDARY candidates carry 1.0.
C13_SourceSpecificMetrics ==
    pc = "done" =>
      \A e \in DOMAIN all_detected_candidates_map :
        \A k \in 1..Len(all_detected_candidates_map[e]) :
          LET det_type == all_detected_candidates_map[e][k][1]
              metric == all_detected_candidates_map[e][k][2]
          IN  /\ det_type = "ANGLE_SHARP" =>
                    metric = NormalAngle(bm.normal[bm.link_faces[e][1]],
                                         bm.normal[bm.link_faces[e][2]])
              /\ det_type = "BLENDER_CREASE" => metric = bm.crease[e]
              /\ det_type = "BLENDER_BEVEL" => metric = bm.bevel_weight[e]
              /\ det_type \in {"BLENDER_SHARP", "BLENDER_SEAM",
                               "UV_SEAM_BOUNDARY"} => metric = 1

\* C14: an edge is a key of the candidate map if and only if a detector
\* returned it, and the types of its list are the types it was returned
\* under, once each, in detector execution order.
C14_PureMerge ==
    (pc = "done" /\ PassRuns(bm, settings)) =>
      /\ DOMAIN all_detected_candidates_map =
            UNION {EmittedBy(DetectorOrder[i]) : i \in 1..Len(DetectorOrder)}
      /\ \A e \in DOMAIN all_detected_candidates_map :
            TypeSeq(all_detected_candidates_map[e]) =
                SelectSeq(DetectorOrder, LAMBDA t : e \in EmittedBy(t))

\* e2 was returned by the dihedral detector and under all four authored
\* types, and e5 under none
C14_Witness ==
    /\ pc = "done"
    /\ PassRuns(bm, settings)
    /\ "e2" \in DOMAIN all_detected_candidates_map
    /\ Len(all_detected_candidates_map["e2"]) = 5
    /\ "e5" \notin DOMAIN all_detected_candidates_map

-----------------------------------------------------------------------------
(* Claims about am4_apply_sharps_to_bmesh, under SpecApply *)

\* C16: after am4_apply_sharps_to_bmesh every valid edge of the set is marked
\* sharp, and the count returned is the number of valid edges of the set: 0
\* without a mesh or with an empty set.
C16_FeatureApplication ==
    \A i \in 1..Len(applications) :
      /\ applications[i].marked_count =
            IF bm = None \/ selected_sharp_edges = {}
              THEN 0
              ELSE Cardinality(selected_sharp_edges \cap bm.edges)
      /\ bm # None =>
            \A e \in selected_sharp_edges \cap bm.edges : applications[i].after[e]

\* two valid edges were counted, one of them unmarked before the call
C16_Witness ==
    /\ Len(applications) = 1
    /\ bm # None
    /\ applications[1].marked_count = 2
    /\ \E e \in selected_sharp_edges \cap bm.edges :
          ~applications[1].before[e] /\ bm.use_edge_sharp[e]

\* C17: an invalid edge of the set is not mutated and not counted and a
\* warning is printed about it, and every valid edge of the set is marked.
C17_InvalidEdgesSkipped ==
    \A i \in 1..Len(applications) :
      (bm # None /\ selected_sharp_edges \ bm.edges # {}) =>
        /\ \A e \in selected_sharp_edges \ bm.edges :
              /\ applications[i].after[e] = applications[i].before[e]
              /\ e \in applications[i].warned
        /\ applications[i].marked_count =
              Cardinality(selected_sharp_edges)
                - Cardinality(selected_sharp_edges \ bm.edges)
        /\ \A e \in selected_sharp_edges \cap bm.edges : applications[i].after[e]

\* the set held an unmarked removed edge, which stayed unmarked, and an
\* unmarked valid edge, which was marked
C17_Witness ==
    /\ Len(applications) = 1
    /\ bm # None
    /\ \E e \in selected_sharp_edges \ bm.edges :
          ~applications[1].before[e] /\ ~bm.use_edge_sharp[e]
    /\ \E e \in selected_sharp_edges \cap bm.edges :
          ~applications[1].before[e] /\ bm.use_edge_sharp[e]
    /\ applications[1].marked_count >= 1

\* C18: a further call of am4_apply_sharps_to_bmesh with the same set leaves
\* use_edge_sharp of every edge as the call before left it and returns the
\* same count.
C18_IdempotentApplication ==
    \A i \in 1..Len(applications) :
      i > 1 =>
        /\ applications[i].after = applications[i - 1].after
        /\ applications[i].marked_count = applications[i - 1].marked_count

\* the first call marked an edge, and a second call followed
C18_Witness ==
    /\ Len(applications) >= 2
    /\ applications[1].marked_count >= 1
    /\ applications[1].before # applications[1].after

\* C19: a detection pass leaves the sharp, crease, seam and bevel attributes
\* of every edge as they were, and a call of am4_apply_sharps_to_bmesh
\* leaves the attributes of every edge outside the set as they were.
C19_SoleWriter ==
    [][ /\ (pc = "start" /\ pc' = "done" /\ bm # None) =>
              /\ bm' # None
              /\ \A e \in MeshEdges :
                    AuthoredAttributes(bm', e) = AuthoredAttributes(bm, e)
        /\ (pc' = "applied" /\ bm # None) =>
              /\ bm' # None
              /\ \A e \in MeshEdges \ selected_sharp_edges :
                    AuthoredAttributes(bm', e) = AuthoredAttributes(bm, e)
      ]_vars

\* the pass found edges, the set it returned was applied and marked a new
\* edge, and an edge outside the set is unmarked
C19_Witness ==
    /\ pc = "applied"
    /\ final_edges_to_mark # {}
    /\ selected_sharp_edges = final_edges_to_mark
    /\ applications[1].marked_count >= 1
    /\ applications[1].before # applications[1].after
    /\ \E e \in bm.edges \ selected_sharp_edges : ~bm.use_edge_sharp[e]

-----------------------------------------------------------------------------
(* Claims about two passes, under SpecRerun *)

-----------------------------------------------------------------------------
(* Claims about the pass over the cube, under SpecCube *)

\* C21: on the closed cube with one seam edge, threshold 30 degrees and min
\* feature length 1, the 12 edges are ANGLE_SHARP candidates, the seam edge
\* resolves to BLENDER_SEAM, the other eleven resolve to ANGLE_SHARP, and
\* the final set has exactly 12 edges.
C21_CubeScenario ==
    pc = "done" =>
      /\ \A e \in bm.edges :
            /\ e \in DOMAIN all_detected_candidates_map
            /\ "ANGLE_SHARP" \in TypesOf(all_detected_candidates_map[e])
      /\ \A e \in bm.edges :
            /\ e \in DOMAIN priority_resolved_edges
            /\ priority_resolved_edges[e][1] =
                  IF bm.seam[e] THEN "BLENDER_SEAM" ELSE "ANGLE_SHARP"
      /\ Cardinality({e \in bm.edges :
                         priority_resolved_edges[e][1] = "ANGLE_SHARP"}) = 11
      /\ Cardinality(final_edges_to_mark) = 12

\* the pass ended on the cube, whose 12 edges have two faces a quarter turn
\* or more apart, and returned the seam edge
C21_Witness ==
    /\ pc = "done"
    /\ Cardinality(bm.edges) = 12
    /\ \A e \in bm.edges :
          /\ HasTwoFaces(bm, e)
          /\ DihedralAngle(bm, e) >= NDirs \div 4
          /\ DihedralAngle(bm, e) > settings.auto_sharp_primary_angle
    /\ \E e \in final_edges_to_mark : bm.seam[e]

-----------------------------------------------------------------------------
(* Claims about the resolved tags, under SpecAM3 *)

\* C22: every edge with a non-empty candidate list has one resolved pair,
\* which is one of the candidate records of that edge with its metric as
\* detected, and every edge of the final set is a key of the candidate map.
C22_OneTagFromOwnCandidates ==
    pc = "done" =>
      /\ \A e \in DOMAIN all_detected_candidates_map :
            all_detected_candidates_map[e] # <<>> =>
              /\ e \in DOMAIN priority_resolved_edges
              /\ priority_resolved_edges[e]
                    \in RecordsOf(all_detected_candidates_map[e])
      /\ \A e \in DOMAIN priority_resolved_edges :
            /\ e \in DOMAIN all_detected_candidates_map
            /\ all_detected_candidates_map[e] # <<>>
      /\ final_edges_to_mark \subseteq DOMAIN all_detected_candidates_map

\* e1 has two candidates of different types and metrics, resolved to the
\* first with its own metric, and is in the final set
C22_Witness ==
    /\ pc = "done"
    /\ "e1" \in DOMAIN priority_resolved_edges
    /\ Len(all_detected_candidates_map["e1"]) = 2
    /\ all_detected_candidates_map["e1"][1] = <<TYPE_BLENDER_SEAM, 1>>
    /\ all_detected_candidates_map["e1"][2] = <<TYPE_ANGLE_SHARP, 2>>
    /\ priority_resolved_edges["e1"] = <<TYPE_BLENDER_SEAM, 1>>
    /\ "e1" \in final_edges_to_mark

-----------------------------------------------------------------------------
(* Claims about bmesh_from_obj, under SpecBMeshFromObj *)

\* C23: when bmesh_from_obj was called with mode 'EDIT' on an object that was
\* not in edit mode, the object is in edit mode inside the with block, and
\* after the exit the mode is the original mode again and the active object
\* and the selection are the ones from before the call.
C23_ModeRestored ==
    with_block # None =>
      (with_block.entry = "switched" =>
         /\ pc = "inside" => object_mode[with_block.obj] = "EDIT"
         /\ pc = "exited" =>
               /\ ContextMode(object_mode, active_object)
                     = with_block.original_mode
               /\ object_mode[with_block.obj] = "OBJECT"
               /\ active_object = with_block.active_object_was
               /\ selected_objects = with_block.selected_objects_were)

-----------------------------------------------------------------------------
(* Claims about the registry of preview handlers, under SpecHandlers *)

\* C25: after any sequence of add_preview_handler, remove_preview_handler and
\* clear_all_preview_handlers, the handlers registered with the viewport are
\* exactly the values of _active_draw_handlers, no handler is the value of
\* two areas, and after clear_all_preview_handlers the registry is empty.
C25_RegistryInvariant ==
    /\ registered_handlers = ValuesOf(active_draw_handlers)
    /\ \A a1, a2 \in DOMAIN active_draw_handlers :
          active_draw_handlers[a1] = active_draw_handlers[a2] => a1 = a2
    /\ Cardinality(registered_handlers) <= Cardinality(Areas)
    /\ (last_operator # None /\ last_operator.op = "clear_all_preview_handlers")
          => /\ DOMAIN active_draw_handlers = {}
             /\ registered_handlers = {}

\* the third call added a preview for the area whose preview the second
\* call had added: handler 2 is gone, handlers 1 and 3 are registered
C25_Witness ==
    /\ last_operator # None
    /\ last_operator.op = "add_preview_handler"
    /\ calls = 3
    /\ last_operator.area \in DOMAIN active_draw_handlers
    /\ active_draw_handlers[last_operator.area] = 3
    /\ ValuesOf(active_draw_handlers) = {1, 3}
    /\ registered_handlers = {1, 3}

-----------------------------------------------------------------------------
(* Claims about the Preview, Apply and Clear operators, under SpecOperators *)

\* C24: after the Clear operator returns, no preview draw handler remains
\* registered, whatever Preview operations came before, from whatever areas.
C24_ClearLeavesNoHandler ==
    (last_operator # None /\ last_operator.op = "clear")
        => registered_handlers = {}

\* C26: a call of Apply that marks at least one edge leaves every detected
\* edge marked sharp in the object's mesh, leaves the calling area without a
\* preview handler (its handler is no longer registered) and leaves the
\* transient preview globals None; a call that marks no edge or detects none
\* leaves the mesh data, the handlers and the transient globals as they were.
C26_ApplyBakesAndClears ==
    [][ (calls' = calls + 1 /\ last_operator'.op = "apply") =>
          IF last_operator'.marked_count > 0
            THEN /\ \A edge \in last_operator'.detected :
                       obj_data'.use_edge_sharp[edge]
                 /\ obj_data' = am4_applied_mesh(obj_data,
                                                 last_operator'.detected)
                 /\ last_operator'.area \notin DOMAIN active_draw_handlers'
                 /\ (last_operator'.area \in DOMAIN active_draw_handlers
                       => active_draw_handlers[last_operator'.area]
                            \notin registered_handlers')
                 /\ \A a \in Areas \ {last_operator'.area} :
                       a \in DOMAIN active_draw_handlers
                         => /\ a \in DOMAIN active_draw_handlers'
                            /\ active_draw_handlers'[a] = active_draw_handlers[a]
                            /\ active_draw_handlers[a] \in registered_handlers'
                 /\ transient_preview' = None
            ELSE UNCHANGED <<obj_data, active_draw_handlers,
                             registered_handlers, transient_preview>>
      ]_vars

\* Apply marked edges from an area that showed a preview
C26_Witness ==
    /\ last_operator # None
    /\ last_operator.op = "apply"
    /\ last_operator.marked_count > 0
    /\ calls >= 2
    /\ transient_preview = None
    /\ last_operator.area \notin DOMAIN active_draw_handlers
    /\ \E edge \in last_operator.detected :
          /\ obj_data.use_edge_sharp[edge]
          /\ ~Mesh(obj_data.normal, TRUE, TRUE).use_edge_sharp[edge]
    /\ Cardinality(registered_handlers) < calls - 1

\* C30: a call of Apply in object mode frees the BMesh it made exactly once,
\* whichever way it returns; in edit mode the edit-mesh BMesh is never freed.
C30_FreedExactlyOnce ==
    (last_operator # None /\ last_operator.op = "apply")
        => /\ last_operator.created = "new" => last_operator.free_calls = 1
           /\ last_operator.created = "edit_mesh"
                 => last_operator.free_calls = 0

-----------------------------------------------------------------------------
(* Claims about remeshing, under SpecRemesh *)

\* the call just made was a run of the remesh operator
RemeshRan ==
    calls' = calls + 1 /\ last_operator'.op = "remesh"

C28_ZeroTargetReturnsNone ==
    (/\ last_operator # None
     /\ last_operator.op \in {"remesh", "perform_remeshing"}
     /\ last_operator.settings # None
     /\ last_operator.is_bmesh
     /\ IsRelativePolycount(last_operator.settings)
     /\ \/ Len(last_operator.input) = 0
        \/ TargetFaces(Len(last_operator.input), last_operator.settings) = 0)
        => last_operator.new_mesh_data_tuple = None

\* the vertices of output face j, as vertices of the input
OriginalFace(out, j) ==
    [k \in 1..Len(out.faces[j]) |-> out.verts[out.faces[j][k] + 1]]

\* C29: whenever perform_remeshing returns (verts, faces), both lists are
\* non-empty, every index of every face is a valid index into verts, no
\* input vertex appears twice in verts, every vertex of verts is used by a
\* face, and the output faces are, in order, the input faces i with
\* i mod decimation_factor = 0.
C29_WellFormedOutput ==
    (/\ last_operator # None
     /\ last_operator.op \in {"remesh", "perform_remeshing"}
     /\ last_operator.new_mesh_data_tuple # None)
        => LET out == last_operator.new_mesh_data_tuple
               input == last_operator.input
               factor == DecimationFactor(Len(input), last_operator.settings)
               included == {i \in 0..(Len(input) - 1) : i % factor = 0}
           IN  /\ out.verts # <<>>
               /\ out.faces # <<>>
               /\ \A j \in 1..Len(out.faces) : \A k \in 1..Len(out.faces[j]) :
                     out.faces[j][k] \in 0..(Len(out.verts) - 1)
               /\ \A a, b \in 1..Len(out.verts) :
                     out.verts[a] = out.verts[b] => a = b
               /\ \A a \in 1..Len(out.verts) :
                     \E j \in 1..Len(out.faces) :
                       \E k \in 1..Len(out.faces[j]) : out.faces[j][k] = a - 1
               /\ Len(out.faces) = Cardinality(included)
               /\ \A j \in 1..Len(out.faces) :
                     /\ (j - 1) * factor \in included
                     /\ OriginalFace(out, j) = input[(j - 1) * factor + 1]

\* a mesh of more than five faces that share vertices, decimated by the
\* fixed factor: faces 0 and 5 are kept and share a vertex
C29_Witness ==
    /\ last_operator # None
    /\ last_operator.op = "perform_remeshing"
    /\ last_operator.new_mesh_data_tuple # None
    /\ ~IsRelativePolycount(last_operator.settings)
    /\ Len(last_operator.input) > 5
    /\ Len(last_operator.new_mesh_data_tuple.faces) = 2
    /\ Len(last_operator.new_mesh_data_tuple.verts) = 5

=============================================================================
